---- MODULE Spec2Model ----
(***************************************************************************)
(* Senior WB Analyst: the intent-driven pipeline of src/graph, the        *)
(* SeniorAnalyst with its conversation memory, the feedback tools and the  *)
(* session store of the Telegram front end.                                *)
(*                                                                         *)
(* Spec         one run of analyst_graph.invoke(initial_state), a state    *)
(*              machine over the graph state (AnalystState) with one       *)
(*              action per node;                                           *)
(* AnalystSpec  one SeniorAnalyst used in turn, as interactive_session     *)
(*              does, and the feedback tools;                              *)
(* SessionSpec  the handlers of the Telegram bot over user_sessions, with  *)
(*              analyst.ask running on worker threads.                     *)
(*                                                                         *)
(* Text.  TLC strings are ASCII, the program's questions and keywords are  *)
(* Russian.  Every character of the source is written as ONE character of  *)
(* the model, so that `word in question` is the same relation:             *)
(*   a a  b b  v v  g g  d d  e e  zh x  z z  i i  j(short i) j  k k  l l  *)
(*   m m  n n  o o  p p  r r  s s  t t  u u  f f  h h  ts 4  ch c  sh w    *)
(*   shch 5  hard sign 7  y y  soft sign 6  e(reversed) 8  yu 9  ya q      *)
(*   yo 3                                                                  *)
(* A capital Cyrillic letter is the capital of its model letter.  The      *)
(* Latin letters of the keywords "kpi" and "drr" are k &, p @, i !, d $,   *)
(* r %, so that Latin "drr" and Cyrillic "drr" stay different words.       *)
(* In a comment given to /error the digits 3 and 5 are written + and =,    *)
(* and the three backquotes of a markdown fence are written ~~~.           *)
(***************************************************************************)
EXTENDS Integers, Sequences, FiniteSets, TLC

(* Longest question, in fragments. *)
MaxFrags == 2

-----------------------------------------------------------------------------
(* str.__contains__: `w in q` *)
Contains(q, w) ==
    \E i \in 1..(Len(q) - Len(w) + 1) : SubSeq(q, i, i + Len(w) - 1) = w

lower_char(c) ==
    LET UpperChars == "ABCDEFGHIJKLMNOPQRSTUVWXYZ"
        LowerChars == "abcdefghijklmnopqrstuvwxyz"
    IN  IF \E i \in 1..Len(UpperChars) : SubSeq(UpperChars, i, i) = c
        THEN LET i == CHOOSE j \in 1..Len(UpperChars) : SubSeq(UpperChars, j, j) = c
             IN  SubSeq(LowerChars, i, i)
        ELSE c

RECURSIVE lower(_)
(* str.lower() *)
lower(s) ==
    IF Len(s) = 0 THEN ""
    ELSE lower_char(SubSeq(s, 1, 1)) \o lower(SubSeq(s, 2, Len(s)))

(* any(word in question for word in words) *)
any_word_in(q, words) == \E i \in 1..Len(words) : Contains(q, words[i])

(* dict.get(key, default) *)
dict_get(d, k, default) == IF k \in DOMAIN d THEN d[k] ELSE default

(* the empty dict {} *)
EmptyDict == <<>>

-----------------------------------------------------------------------------
(* Keyword lists, in the order the code writes them. *)
ClassifyCausalWords == <<"pocemu", "pricin", "upal", "snizil", "cto slucil">>
ClassifyActionWords == <<"cto delat6", "kak ulucw", "rekomend", "optimiz", "sovet">>
ClassifyFactWords   == <<"kakoj", "skol6ko", "pokaxi", "top", "plan", "marxa", "vyrucka">>

DescribeMarginWords == <<"marxa", "pribyl6", "finrez", "finansov">>
DescribePlanWords   == <<"plan", "vypolnen", "fakt", "&@!">>
DescribeTopWords    == <<"top", "lucw", "lider">>
DescribeBottomWords == <<"ubytoc", "hudw", "minus", "otri4at", "problem">>
DescribeFunnelWords == <<"voronk", "konvers", "prosmotr", "zakaz", "vykup">>
DescribeStockWords  == <<"ostat", "stok", "sklad", "nalici">>
DescribeAdsWords    == <<"reklam", "$%%", "drr", "kampani", "stavk">>
DescribeTrendWords  == <<"dinamik", "trend", "nedelq", "dnej", "izmen">>
DescribeUnderWords  == <<"otsta95", "otstavan", "nedovypoln">>

DiagnoseCausalWords  == <<"pocemu", "pricin", "cto slucil", "cto proizowl">>
DiagnoseCompareWords == <<"sravn", "nedelq", "period", "bylo">>
DiagnoseAnomalyWords == <<"anomal", "rezk", "skacok", "proval", "vybros">>

PrescribeActionWords == <<"cto delat6", "kak ulucw", "rekomend", "sovet", "dejstv">>
PrescribeOptimWords  == <<"optimiz", "snizit6", "s8konom", "ubytoc", "drr">>
PrescribeScaleWords  == <<"maswtab", "uvelic", "rost", "bol6we", "skejl">>
PrescribePlanWords   == <<"plan", "vypoln", "&@!", "4el">>

-----------------------------------------------------------------------------
(* The questions of the model: up to MaxFrags fragments joined by a space. *)
(* Pocemu = "Why", upala = "fell", Cto delat6 = "What to do",              *)
(* optimizirovat6 = "optimize", marxa = "margin", plan = "plan",           *)
(* nedelq = "week", anomaliq = "anomaly", reklama = "advertising",         *)
(* privet = "hello" (in no keyword list).                                  *)
Fragments ==
    { "Pocemu", "upala", "Cto delat6", "optimizirovat6", "marxa", "plan",
      "nedelq", "anomaliq", "reklama", "privet" }

Questions ==
    LET RECURSIVE QuestionsOfLen(_)
        QuestionsOfLen(n) ==
            IF n = 0 THEN {""}
            ELSE IF n = 1 THEN Fragments
            ELSE { q \o " " \o f : q \in QuestionsOfLen(n - 1), f \in Fragments }
    IN  UNION { QuestionsOfLen(n) : n \in 0..MaxFrags }

(* For a list of keywords, one question per subset of it: the keywords of  *)
(* the subset in list order, each followed by a space.                     *)
keyword_questions(words) ==
    LET RECURSIVE chosen(_, _)
        chosen(S, k) ==
            IF k > Len(words) THEN ""
            ELSE (IF k \in S THEN words[k] \o " " ELSE "") \o chosen(S, k + 1)
    IN  { chosen(S, 1) : S \in SUBSET (1..Len(words)) }

(* Questions that between them match every subset of the nine keyword      *)
(* groups of describe, and every subset of the three of diagnose: a        *)
(* keyword of each group of the subset.                                    *)
NodeQuestions ==
    keyword_questions(<<"marxa", "plan", "top", "ubytoc", "voronk", "ostat",
                        "reklam", "dinamik", "otsta95">>)
        \cup keyword_questions(<<"pocemu", "sravn", "anomal">>)

(* The keyword lists by name. *)
WordGroups ==
    [ classify_causal  |-> ClassifyCausalWords,
      classify_action  |-> ClassifyActionWords,
      classify_fact    |-> ClassifyFactWords,
      describe_margin  |-> DescribeMarginWords,
      describe_plan    |-> DescribePlanWords,
      describe_top     |-> DescribeTopWords,
      describe_bottom  |-> DescribeBottomWords,
      describe_funnel  |-> DescribeFunnelWords,
      describe_stock   |-> DescribeStockWords,
      describe_ads     |-> DescribeAdsWords,
      describe_trend   |-> DescribeTrendWords,
      describe_under   |-> DescribeUnderWords,
      diagnose_causal  |-> DiagnoseCausalWords,
      diagnose_compare |-> DiagnoseCompareWords,
      diagnose_anomaly |-> DiagnoseAnomalyWords,
      prescribe_action |-> PrescribeActionWords,
      prescribe_optim  |-> PrescribeOptimWords,
      prescribe_scale  |-> PrescribeScaleWords,
      prescribe_plan   |-> PrescribePlanWords ]

(* For each question, the keyword lists g with                             *)
(*     any(word in question.lower() for word in g)                         *)
(* tabulated once: every node lower-cases the question and tests it        *)
(* against its lists in exactly this way.                                  *)
question_matches ==
    [ q \in Questions \cup NodeQuestions |->
        LET question_lower == lower(q)
        IN  { g \in DOMAIN WordGroups : any_word_in(question_lower, WordGroups[g]) } ]

(* any(word in question.lower() for word in WordGroups[g]) *)
matches(question, g) == g \in question_matches[question]

-----------------------------------------------------------------------------
(* AnalystState.intent: Literal["describe", "diagnose", "prescribe", "clarify"] *)
Intents == {"describe", "diagnose", "prescribe", "clarify"}

(* The "entities" payloads the reasoning service answers; each has its own *)
(* date_range.                                                             *)
EntityPayloads ==
    { [skus |-> <<>>, date_range |-> "yesterday", metrics |-> <<>>],
      [skus |-> <<"123">>, date_range |-> "today", metrics |-> <<"margin">>],
      [skus |-> <<"abc", "0", "456">>, date_range |-> "last_week"],
      [date_range |-> "2026-01-15"] }

IntentParts == {EmptyDict} \cup { [intent |-> i] : i \in Intents \cup {"smalltalk"} }
EntityParts == {EmptyDict} \cup { [entities |-> e] : e \in EntityPayloads }

(* The text of a JSON object: its members in order, symbolically. *)
JsonText(a, b) ==
    "{" \o (IF "intent" \in DOMAIN a THEN "intent:" \o a.intent ELSE "")
        \o (IF "entities" \in DOMAIN b
            THEN ",entities:" \o b.entities.date_range ELSE "")
        \o "}"

JsonDocuments ==
    { [text |-> JsonText(a, b), value |-> a @@ b] :
        a \in IntentParts, b \in EntityParts }

(* Texts that are valid JSON but no object: a list, null, a number. *)
NonObjectTexts == {"[]", "null", "42"}

(* Texts that are no JSON at all. *)
GarbageTexts == {"", "sorry", "{intent:"}

(* json.loads(text): the object, another JSON value, or JSONDecodeError *)
json_loads(text) ==
    IF \E d \in JsonDocuments : d.text = text
    THEN [kind |-> "object",
          value |-> (CHOOSE d \in JsonDocuments : d.text = text).value]
    ELSE IF text \in NonObjectTexts THEN [kind |-> "nonobject"]
    ELSE [kind |-> "JSONDecodeError"]

(* The first position of sep in s, 0 when there is none. *)
find(s, sep) ==
    LET at == { i \in 1..(Len(s) - Len(sep) + 1) :
                    SubSeq(s, i, i + Len(sep) - 1) = sep }
    IN  IF at = {} THEN 0 ELSE CHOOSE i \in at : \A j \in at : i <= j

(* str.split(sep) *)
RECURSIVE split(_, _)
split(s, sep) ==
    LET i == find(s, sep)
    IN  IF i = 0 THEN <<s>>
        ELSE <<SubSeq(s, 1, i - 1)>>
                 \o split(SubSeq(s, i + Len(sep), Len(s)), sep)

(* str.strip() *)
RECURSIVE strip(_)
strip(s) ==
    IF s = "" THEN s
    ELSE IF SubSeq(s, 1, 1) = " " THEN strip(SubSeq(s, 2, Len(s)))
    ELSE IF SubSeq(s, Len(s), Len(s)) = " " THEN strip(SubSeq(s, 1, Len(s) - 1))
    ELSE s

(* list[k] of Python (k counted from 0); IndexError past the end *)
list_item(parts, k) ==
    IF k + 1 <= Len(parts) THEN [kind |-> "ok", value |-> parts[k + 1]]
    ELSE [kind |-> "IndexError"]

(* classify_intent: the markdown fence (three backquotes, written ~~~)     *)
(* is cut away from the content                                            *)
strip_fence(content) ==
    LET fence == IF Contains(content, "~~~json") THEN "~~~json"
                 ELSE IF Contains(content, "~~~") THEN "~~~"
                 ELSE ""
    IN  IF fence = "" THEN [kind |-> "ok", value |-> content]
        ELSE LET inner == list_item(split(content, fence), 1)
             IN  IF inner.kind = "ok"
                 THEN list_item(split(inner.value, "~~~"), 0)
                 ELSE inner

(* classify_intent: the body of the try block, from response.content to    *)
(* the two result.get calls.  `result.get` of a value that is no object    *)
(* raises AttributeError.                                                  *)
parse_content(content) ==
    LET inner == strip_fence(content)
    IN  IF inner.kind = "IndexError" THEN inner
        ELSE LET result == json_loads(strip(inner.value))
             IN  IF result.kind = "nonobject"
                 THEN [kind |-> "AttributeError"]
                 ELSE result

(* The ways the service wraps a payload into its reply. *)
Wrappings(text) ==
    { text,
      "~~~json " \o text \o " ~~~",
      "~~~ " \o text \o " ~~~",
      "Here: ~~~json " \o text,
      " " \o text \o " " }

PayloadTexts ==
    { d.text : d \in JsonDocuments } \cup NonObjectTexts \cup GarbageTexts

ReplyContents == UNION { Wrappings(text) : text \in PayloadTexts }

(* parse_content, tabulated once for the contents the service replies *)
content_parsed == [ c \in ReplyContents |-> parse_content(c) ]

(* Replies of the reasoning service to the classification prompt:          *)
(* llm.invoke raises, or answers a response with this content.             *)
ClassifyReplies ==
    { [kind |-> "raise"] }
        \cup { [kind |-> "content", content |-> c] : c \in ReplyContents }

(* ask(): initial_state *)
initial_state(question) ==
    [ question        |-> question,
      intent          |-> "describe",
      entities        |-> EmptyDict,
      data_context    |-> <<>>,
      insights        |-> <<>>,
      recommendations |-> <<>>,
      response        |-> "" ]

(* What a node hands back: it raised, or it returned the dict `ret`.       *)
(* `handed` is the data_context list object of the node's input as the     *)
(* node leaves it (list.append changes it in place); `appended` are the    *)
(* entries the node's own data_context.append calls added.                 *)
Raised == [raised |-> TRUE]
Returned(ret, handed, appended) ==
    [raised |-> FALSE, ret |-> ret, handed |-> handed, appended |-> appended]

(* faulty variant: the action-request words are tested first *)
fallback_intent_action_first(question) ==
    IF matches(question, "classify_action") THEN "prescribe"
    ELSE IF matches(question, "classify_causal") THEN "diagnose"
    ELSE IF matches(question, "classify_fact") THEN "describe"
    ELSE "describe"

(* faulty variant: the factual-query words are tested before the           *)
(* action-request words                                                    *)
fallback_intent_fact_first(question) ==
    IF matches(question, "classify_causal") THEN "diagnose"
    ELSE IF matches(question, "classify_fact") THEN "describe"
    ELSE IF matches(question, "classify_action") THEN "prescribe"
    ELSE "describe"

(* faulty variant: a question without any marker is left to be clarified *)
fallback_intent_clarifying(question) ==
    IF matches(question, "classify_causal") THEN "diagnose"
    ELSE IF matches(question, "classify_action") THEN "prescribe"
    ELSE IF matches(question, "classify_fact") THEN "describe"
    ELSE "clarify"

(* classify_intent: the keyword cascade of the except branch *)
fallback_intent(question) ==
    IF matches(question, "classify_causal") THEN "diagnose"
    ELSE IF matches(question, "classify_action") THEN "prescribe"
    ELSE IF matches(question, "classify_fact") THEN "describe"
    ELSE "describe"

(* The exceptions the try block of classify_intent catches. *)
CaughtByClassify == {"JSONDecodeError", "IndexError"}

(* classify_intent(state), `reply` being what llm.invoke answers *)
classify_intent(st, reply) ==
    IF reply.kind = "raise" THEN Raised
    ELSE LET result == content_parsed[reply.content]
         IN  IF result.kind = "object"
             THEN Returned([st EXCEPT
                     !.intent   = dict_get(result.value, "intent", "describe"),
                     !.entities = dict_get(result.value, "entities", EmptyDict)],
                     st.data_context, <<>>)
             ELSE IF result.kind \in CaughtByClassify
             THEN Returned([st EXCEPT
                     !.intent   = fallback_intent(st.question),
                     !.entities = [skus |-> <<>>, date_range |-> "yesterday",
                                   metrics |-> <<>>]],
                     st.data_context, <<>>)
             ELSE Raised

-----------------------------------------------------------------------------
(* A DataContext entry {"tool": ..., "result": ...}; the result of a tool  *)
(* is an opaque text fixed by the tool function and its arguments.         *)
Entry(tool, fn, args) == [tool |-> tool, result |-> fn \o "(" \o args \o ")"]

(* faulty variant: the token last_week is handed on as it is *)
get_date_from_range_keeping_last_week(date_range) ==
    IF date_range = "today" THEN "<today>"
    ELSE IF date_range = "yesterday" THEN "<today - 1 day>"
    ELSE IF date_range = "last_week" THEN date_range
    ELSE IF Contains(date_range, "-") THEN date_range
    ELSE "<today - 1 day>"

(* get_date_from_range(date_range); the current date is symbolic *)
get_date_from_range(date_range) ==
    IF date_range = "today" THEN "<today>"
    ELSE IF date_range = "yesterday" THEN "<today - 1 day>"
    ELSE IF date_range = "last_week" THEN "<today - 7 days>"
    ELSE IF Contains(date_range, "-") THEN date_range
    ELSE "<today - 1 day>"

(* the tools of an entry sequence *)
ToolsOf(dc) == [i \in 1..Len(dc) |-> dc[i].tool]

(* some tool of the entries is unavailable: its invoke raises *)
AnyFails(entries, failing) == \E i \in 1..Len(entries) : entries[i].tool \in failing

(* faulty variant: no general summary *)
describe_fallback_missing(data_context, date) == data_context

(* faulty variant: the general summary carries the advertising summary too *)
describe_fallback_with_ads(data_context, date) ==
    IF data_context = <<>>
    THEN data_context \o <<Entry("margin_summary", "get_margin_summary", date),
                           Entry("plan_fact", "get_plan_fact_summary", ""),
                           Entry("ads_summary", "get_ads_summary", date)>>
    ELSE data_context

(* describe: `if not data_context:` the general summary *)
describe_fallback(data_context, date) ==
    IF data_context = <<>>
    THEN data_context \o <<Entry("margin_summary", "get_margin_summary", date),
                           Entry("plan_fact", "get_plan_fact_summary", "")>>
    ELSE data_context

(* faulty variant: the trend group is checked before the advertising group *)
describe_entries_trend_before_ads(question, date) ==
    LET margin == IF matches(question, "describe_margin")
                  THEN <<Entry("margin_summary", "get_margin_summary", date)>> ELSE <<>>
        plan   == IF matches(question, "describe_plan")
                  THEN <<Entry("plan_fact", "get_plan_fact_summary", ""),
                         Entry("plan_forecast", "get_plan_forecast", "")>> ELSE <<>>
        top    == IF matches(question, "describe_top")
                  THEN <<Entry("top_margin_sku", "get_top_margin_sku", date)>> ELSE <<>>
        bottom == IF matches(question, "describe_bottom")
                  THEN <<Entry("bottom_margin_sku", "get_bottom_margin_sku", date)>> ELSE <<>>
        funnel == IF matches(question, "describe_funnel")
                  THEN <<Entry("funnel_summary", "get_funnel_summary", date)>> ELSE <<>>
        stock  == IF matches(question, "describe_stock")
                  THEN <<Entry("stock_summary", "get_stock_summary", date)>> ELSE <<>>
        ads    == IF matches(question, "describe_ads")
                  THEN <<Entry("ads_summary", "get_ads_summary", date),
                         Entry("high_drr_campaigns", "get_high_drr_campaigns", date)>> ELSE <<>>
        trend  == IF matches(question, "describe_trend")
                  THEN <<Entry("margin_trend", "get_margin_trend", "7")>> ELSE <<>>
        under  == IF matches(question, "describe_under")
                  THEN <<Entry("underperforming_sku", "get_underperforming_sku", "80")>> ELSE <<>>
        data_context == margin \o plan \o top \o bottom \o funnel \o stock
                            \o trend \o ads \o under
    IN  describe_fallback(data_context, date)

(* describe(state): the entries of the matched keyword groups, then the    *)
(* general summary if there are none                                       *)
describe_entries(question, date) ==
    LET margin == IF matches(question, "describe_margin")
                  THEN <<Entry("margin_summary", "get_margin_summary", date)>> ELSE <<>>
        plan   == IF matches(question, "describe_plan")
                  THEN <<Entry("plan_fact", "get_plan_fact_summary", ""),
                         Entry("plan_forecast", "get_plan_forecast", "")>> ELSE <<>>
        top    == IF matches(question, "describe_top")
                  THEN <<Entry("top_margin_sku", "get_top_margin_sku", date)>> ELSE <<>>
        bottom == IF matches(question, "describe_bottom")
                  THEN <<Entry("bottom_margin_sku", "get_bottom_margin_sku", date)>> ELSE <<>>
        funnel == IF matches(question, "describe_funnel")
                  THEN <<Entry("funnel_summary", "get_funnel_summary", date)>> ELSE <<>>
        stock  == IF matches(question, "describe_stock")
                  THEN <<Entry("stock_summary", "get_stock_summary", date)>> ELSE <<>>
        ads    == IF matches(question, "describe_ads")
                  THEN <<Entry("ads_summary", "get_ads_summary", date),
                         Entry("high_drr_campaigns", "get_high_drr_campaigns", date)>> ELSE <<>>
        trend  == IF matches(question, "describe_trend")
                  THEN <<Entry("margin_trend", "get_margin_trend", "7")>> ELSE <<>>
        under  == IF matches(question, "describe_under")
                  THEN <<Entry("underperforming_sku", "get_underperforming_sku", "80")>> ELSE <<>>
        data_context == margin \o plan \o top \o bottom \o funnel \o stock
                            \o ads \o trend \o under
    IN  describe_fallback(data_context, date)

(* faulty variant: the returned dict carries the initial intent instead of *)
(* the one of its input                                                    *)
describe_resetting_intent(st, failing) ==
    LET question   == st.question
        date_range == dict_get(st.entities, "date_range", "yesterday")
        date       == get_date_from_range(date_range)
        entries    == describe_entries(question, date)
    IN  IF AnyFails(entries, failing) THEN Raised
        ELSE Returned([st EXCEPT !.data_context = entries, !.insights = <<>>,
                                 !.intent = "describe"],
                      st.data_context, entries)

(* describe(state); `failing` are the tools whose invoke raises *)
describe(st, failing) ==
    LET question   == st.question
        date_range == dict_get(st.entities, "date_range", "yesterday")
        date       == get_date_from_range(date_range)
        entries    == describe_entries(question, date)
    IN  IF AnyFails(entries, failing) THEN Raised
        ELSE Returned([st EXCEPT !.data_context = entries, !.insights = <<>>],
                      st.data_context, entries)

-----------------------------------------------------------------------------
(* str.startswith(prefix) *)
startswith(s, prefix) ==
    Len(s) >= Len(prefix) /\ SubSeq(s, 1, Len(prefix)) = prefix

Digits == "0123456789"

(* the value of a decimal digit character; -1 for any other character *)
digit_value(c) ==
    IF \E i \in 1..Len(Digits) : SubSeq(Digits, i, i) = c
    THEN (CHOOSE i \in 1..Len(Digits) : SubSeq(Digits, i, i) = c) - 1
    ELSE -1

(* str.isdigit() *)
isdigit(s) ==
    Len(s) > 0 /\ \A i \in 1..Len(s) : digit_value(SubSeq(s, i, i)) >= 0

RECURSIVE int(_)
(* int(s) of a string of digits *)
int(s) ==
    IF Len(s) = 0 THEN 0
    ELSE 10 * int(SubSeq(s, 1, Len(s) - 1)) + digit_value(SubSeq(s, Len(s), Len(s)))

(* diagnose: `for sku in skus[:3]` *)
MaxDiagnosedSkus == 3

RECURSIVE diagnose_sku_calls(_)
(* the loop over skus[:3]: the SKUs diagnose_sku.invoke is called with,    *)
(* those whose nmid is truthy                                              *)
diagnose_sku_calls(skus) ==
    IF skus = <<>> THEN <<>>
    ELSE LET sku  == Head(skus)
             nmid == IF isdigit(sku) THEN int(sku) ELSE 0
         IN  (IF nmid # 0 THEN <<sku>> ELSE <<>>)
                 \o diagnose_sku_calls(Tail(skus))

RECURSIVE diagnose_sku_entries_until_raise(_, _)
(* faulty variant: a lookup that raises ends the loop *)
diagnose_sku_entries_until_raise(skus, failingSkus) ==
    IF skus = <<>> THEN <<>>
    ELSE LET sku  == Head(skus)
             nmid == IF isdigit(sku) THEN int(sku) ELSE 0
         IN  IF nmid # 0 /\ sku \in failingSkus THEN <<>>
             ELSE (IF nmid # 0
                   THEN <<Entry("diagnose_sku", "diagnose_sku", sku)>>
                   ELSE <<>>)
                      \o diagnose_sku_entries_until_raise(Tail(skus), failingSkus)

RECURSIVE diagnose_sku_entries(_, _)
(* the loop over skus[:3]: one entry per SKU whose nmid is truthy and      *)
(* whose lookup does not raise (the try/except skips the others)           *)
diagnose_sku_entries(skus, failingSkus) ==
    IF skus = <<>> THEN <<>>
    ELSE LET sku  == Head(skus)
             nmid == IF isdigit(sku) THEN int(sku) ELSE 0
             this == IF nmid # 0 /\ sku \notin failingSkus
                     THEN <<Entry("diagnose_sku", "diagnose_sku", sku)>>
                     ELSE <<>>
         IN  this \o diagnose_sku_entries(Tail(skus), failingSkus)

DiagnosePrefixes == <<"analyze", "compare", "find_anomalies", "diagnose_sku">>

(* any(item['tool'].startswith((...)) for item in data_context) *)
has_diagnostic_entry(dc) ==
    \E i \in 1..Len(dc) : \E k \in 1..Len(DiagnosePrefixes) :
        startswith(dc[i].tool, DiagnosePrefixes[k])

(* faulty variant: no general analysis *)
diagnose_fallback_missing(dc, matched) == matched

(* faulty variant: the general analysis runs whatever was appended *)
diagnose_fallback_always(dc, matched) ==
    matched \o <<Entry("analyze_margin_change", "analyze_margin_change", "7")>>

(* diagnose: `if not any(...startswith(...) for item in data_context):`    *)
(* the general margin-change analysis; dc is the list the node was handed, *)
(* matched what the node has appended to it so far                         *)
diagnose_fallback(dc, matched) ==
    IF ~has_diagnostic_entry(dc \o matched)
    THEN matched \o <<Entry("analyze_margin_change", "analyze_margin_change", "7")>>
    ELSE matched

(* the entries diagnose appends to the data_context it was handed *)
diagnose_appended(question, skus, dc, failingSkus) ==
    LET per_sku == diagnose_sku_entries(
                       SubSeq(skus, 1, IF Len(skus) < MaxDiagnosedSkus
                                       THEN Len(skus) ELSE MaxDiagnosedSkus),
                       failingSkus)
        causal  == IF matches(question, "diagnose_causal")
                   THEN <<Entry("analyze_margin_change", "analyze_margin_change", "7")>>
                   ELSE <<>>
        compare == IF matches(question, "diagnose_compare")
                   THEN <<Entry("compare_periods", "compare_periods",
                                "2026-01-06,2026-01-12,2026-01-13,2026-01-18")>>
                   ELSE <<>>
        anomaly == IF matches(question, "diagnose_anomaly")
                   THEN <<Entry("find_anomalies", "find_margin_anomalies", "7")>>
                   ELSE <<>>
        matched == per_sku \o causal \o compare \o anomaly
    IN  diagnose_fallback(dc, matched)

(* faulty variant: new entries are put in front of the handed list *)
diagnose_prepending(st, failing, failingSkus) ==
    LET question     == st.question
        skus         == dict_get(st.entities, "skus", <<>>)
        appended     == diagnose_appended(question, skus, st.data_context, failingSkus)
        data_context == appended \o st.data_context
    IN  IF AnyFails(SelectSeq(appended, LAMBDA e : e.tool # "diagnose_sku"), failing)
        THEN Raised
        ELSE Returned([st EXCEPT !.data_context = data_context,
                                 !.insights = st.insights],
                      data_context, appended)

(* diagnose(state) *)
diagnose(st, failing, failingSkus) ==
    LET question     == st.question
        skus         == dict_get(st.entities, "skus", <<>>)
        appended     == diagnose_appended(question, skus, st.data_context, failingSkus)
        data_context == st.data_context \o appended
    IN  IF AnyFails(SelectSeq(appended, LAMBDA e : e.tool # "diagnose_sku"), failing)
        THEN Raised
        ELSE Returned([st EXCEPT !.data_context = data_context,
                                 !.insights = st.insights],
                      data_context, appended)

RecommendationTools ==
    {"actionable_insights", "optimization_candidates", "scaling_candidates",
     "plan_recommendations"}

(* any(item['tool'] in [...] for item in data_context) *)
has_recommendation_entry(dc) ==
    \E i \in 1..Len(dc) : dc[i].tool \in RecommendationTools

(* faulty variant: the fallback tests the list for emptiness, as describe  *)
(* does                                                                    *)
prescribe_fallback_if_empty(dc, matched) ==
    IF dc \o matched = <<>>
    THEN matched \o <<Entry("actionable_insights", "get_actionable_insights", "")>>
    ELSE matched

(* prescribe: `if not any(item['tool'] in [...] for item in data_context):` *)
(* the top actions                                                         *)
prescribe_fallback(dc, matched) ==
    IF ~has_recommendation_entry(dc \o matched)
    THEN matched \o <<Entry("actionable_insights", "get_actionable_insights", "")>>
    ELSE matched

(* the entries prescribe appends to the data_context it was handed *)
prescribe_appended(question, dc) ==
    LET action == IF matches(question, "prescribe_action")
                  THEN <<Entry("actionable_insights", "get_actionable_insights", "")>>
                  ELSE <<>>
        optim  == IF matches(question, "prescribe_optim")
                  THEN <<Entry("optimization_candidates", "get_optimization_candidates", "")>>
                  ELSE <<>>
        scale  == IF matches(question, "prescribe_scale")
                  THEN <<Entry("scaling_candidates", "get_scaling_candidates", "")>>
                  ELSE <<>>
        plan   == IF matches(question, "prescribe_plan")
                  THEN <<Entry("plan_recommendations", "get_plan_recommendations", "")>>
                  ELSE <<>>
        matched == action \o optim \o scale \o plan
    IN  prescribe_fallback(dc, matched)

(* prescribe(state) *)
prescribe(st, failing) ==
    LET question     == st.question
        appended     == prescribe_appended(question, st.data_context)
        data_context == st.data_context \o appended
    IN  IF AnyFails(appended, failing) THEN Raised
        ELSE Returned([st EXCEPT !.data_context = data_context,
                                 !.recommendations = <<>>],
                      data_context, appended)

(* Replies of the reasoning service to the synthesis prompt: it raises, or *)
(* its content is the answer (possibly empty).                             *)
SynthesizeReplies ==
    { [kind |-> "raise"], [kind |-> "text", content |-> "answer"],
      [kind |-> "text", content |-> ""] }

(* synthesize(state) *)
synthesize(st, reply) ==
    IF reply.kind = "raise" THEN Raised
    ELSE Returned([st EXCEPT !.response = reply.content], st.data_context, <<>>)

-----------------------------------------------------------------------------
(* The compiled graph (create_analyst_graph) run by analyst_graph.invoke.  *)

VARIABLES
    state,      \* the graph state (AnalystState) held by the channels
    pc,         \* the node to run next; "done" is END, "failed" a raised run
    visited,    \* the nodes that have run, in order
    appended,   \* per stage, the entries its own append calls added
    sku_calls,  \* the diagnose_sku lookups of the diagnose stage, in order,
                \* each with whether it raised
    parsed,     \* how classify got the intent: "structured" from the
                \* parsed reply, "fallback" by keywords ("pending" before);
                \* "service_error" when llm.invoke raised, "parse_error" when
                \* an exception left the node after the service had answered
    shared,     \* the runtime hands a node the channel's list object itself
                \* (TRUE) or a copy of it (FALSE)
    user_sessions,        \* telegram_bot.user_sessions: user id -> (analyst,
                          \* last_activity); the analyst by its place in `analysts`
    analysts,             \* the SeniorAnalyst objects there are, by their place
    now,                  \* datetime.now(), in hours
    in_flight,            \* the analyst.ask calls running on worker threads
    started,              \* the number of ask calls dispatched so far
    agent_conversations,  \* rows of the table agent_conversations
    agent_feedback,       \* rows of the table agent_feedback
    db_up,                \* the database takes inserts (TRUE) or every insert
                          \* raises (FALSE)
    event                 \* the last handler or call that ran, with what it
                          \* was given and what it returned

pipelineVars == <<state, pc, visited, appended, sku_calls, parsed>>

sessionVars == <<user_sessions, analysts, now, in_flight, started,
                 agent_conversations, agent_feedback, db_up, event>>

vars == <<state, pc, visited, appended, sku_calls, parsed, shared, user_sessions, analysts,
          now, in_flight, started, agent_conversations, agent_feedback, db_up,
          event>>

Stages == {"classify", "describe", "diagnose", "prescribe", "synthesize"}

(* The tools each stage imports, by the name of their entries. *)
DescribeTools ==
    { "margin_summary", "plan_fact", "plan_forecast", "top_margin_sku",
      "bottom_margin_sku", "funnel_summary", "stock_summary", "ads_summary",
      "high_drr_campaigns", "margin_trend", "underperforming_sku" }

DiagnoseTools == {"analyze_margin_change", "compare_periods", "find_anomalies"}

(* Tools whose invoke raises during a stage: none, or one of them. *)
FailChoices(tools) == {{}} \cup { {t} : t \in tools }

(* SKUs whose diagnose_sku lookup raises (none, or one of them). *)
SkuFailChoices == {{}, {"123"}, {"456"}}

(* operator.add, the reducer of data_context and insights *)
add(a, b) == a \o b

(* The writes of a returned dict: data_context and insights go through     *)
(* their reducer against the channel's current value, every other key is   *)
(* overwritten.  The channel's current data_context is the list the node   *)
(* was handed: as the node left it when the object is shared.              *)
apply_writes(old, out) ==
    LET current == IF shared THEN out.handed ELSE old.data_context
    IN  [ out.ret EXCEPT
            !.data_context = add(current, out.ret.data_context),
            !.insights     = add(old.insights, out.ret.insights) ]

(* faulty variant: a prescribe question is routed past diagnose *)
route_after_describe_skipping(st) ==
    IF st.intent = "diagnose" THEN "diagnose"
    ELSE IF st.intent = "prescribe" THEN "prescribe"
    ELSE "synthesize"

(* route_after_describe(state) *)
route_after_describe(st) ==
    IF st.intent = "diagnose" THEN "diagnose"
    ELSE IF st.intent = "prescribe" THEN "diagnose"
    ELSE "synthesize"

(* faulty variant: every diagnosed question goes on to prescribe *)
route_after_diagnose_always(st) == "prescribe"

(* route_after_diagnose(state) *)
route_after_diagnose(st) ==
    IF st.intent = "prescribe" THEN "prescribe" ELSE "synthesize"

(* workflow.add_edge("classify", "describe") *)
edge_after_classify == "describe"

(* faulty variant: prescribe wired to END *)
edge_after_prescribe_to_end == "done"

(* workflow.add_edge("prescribe", "synthesize") *)
edge_after_prescribe == "synthesize"

(* workflow.add_edge("synthesize", END) *)
edge_after_synthesize == "done"

Init ==
    /\ state \in { initial_state(q) : q \in Questions }
    /\ pc = "classify"
    /\ visited = <<>>
    /\ appended = [s \in Stages |-> <<>>]
    /\ sku_calls = <<>>
    /\ parsed = "pending"
    /\ shared \in BOOLEAN
    /\ user_sessions = <<>>
    /\ analysts = <<>>
    /\ now = 0
    /\ in_flight = {}
    /\ started = 0
    /\ agent_conversations = <<>>
    /\ agent_feedback = <<>>
    /\ db_up = TRUE
    /\ event = [kind |-> "none"]

Fail ==
    /\ pc' = "failed"
    /\ UNCHANGED <<state, visited, appended, sku_calls, parsed, shared>>
    /\ UNCHANGED sessionVars

Complete(node, out) ==
    /\ state' = apply_writes(state, out)
    /\ visited' = Append(visited, node)
    /\ appended' = [appended EXCEPT ![node] = out.appended]
    /\ UNCHANGED shared
    /\ UNCHANGED sessionVars

(* node "classify", then the edge classify -> describe *)
Classify ==
    /\ pc = "classify"
    /\ \E reply \in ClassifyReplies :
        LET out == classify_intent(state, reply)
        IN  IF out.raised
            THEN /\ pc' = "failed"
                 /\ parsed' = IF reply.kind = "raise" THEN "service_error"
                                ELSE "parse_error"
                 /\ UNCHANGED <<state, visited, appended, sku_calls, shared>>
                 /\ UNCHANGED sessionVars
            ELSE /\ Complete("classify", out)
                 /\ parsed' = IF content_parsed[reply.content].kind = "object"
                                THEN "structured" ELSE "fallback"
                 /\ pc' = edge_after_classify
                 /\ UNCHANGED sku_calls

(* node "describe", then the conditional edge route_after_describe *)
Describe ==
    /\ pc = "describe"
    /\ \E failing \in FailChoices(DescribeTools) :
        LET out == describe(state, failing)
        IN  IF out.raised THEN Fail
            ELSE /\ Complete("describe", out)
                 /\ pc' = route_after_describe(apply_writes(state, out))
                 /\ UNCHANGED <<parsed, sku_calls>>

(* node "diagnose", then the conditional edge route_after_diagnose *)
Diagnose ==
    /\ pc = "diagnose"
    /\ \E failing \in FailChoices(DiagnoseTools), failingSkus \in SkuFailChoices :
        LET out == diagnose(state, failing, failingSkus)
        IN  IF out.raised THEN Fail
            ELSE /\ Complete("diagnose", out)
                 /\ pc' = route_after_diagnose(apply_writes(state, out))
                 /\ sku_calls' =
                        LET skus  == dict_get(state.entities, "skus", <<>>)
                            calls == diagnose_sku_calls(
                                         SubSeq(skus, 1,
                                                IF Len(skus) < MaxDiagnosedSkus
                                                THEN Len(skus)
                                                ELSE MaxDiagnosedSkus))
                        IN  [ k \in 1..Len(calls) |->
                                [ sku    |-> calls[k],
                                  raised |-> calls[k] \in failingSkus ] ]
                 /\ UNCHANGED parsed

(* node "prescribe", then the edge prescribe -> synthesize *)
Prescribe ==
    /\ pc = "prescribe"
    /\ \E failing \in FailChoices(RecommendationTools) :
        LET out == prescribe(state, failing)
        IN  IF out.raised THEN Fail
            ELSE /\ Complete("prescribe", out)
                 /\ pc' = edge_after_prescribe
                 /\ UNCHANGED <<parsed, sku_calls>>

(* node "synthesize", then the edge synthesize -> END *)
Synthesize ==
    /\ pc = "synthesize"
    /\ \E reply \in SynthesizeReplies :
        LET out == synthesize(state, reply)
        IN  IF out.raised THEN Fail
            ELSE /\ Complete("synthesize", out)
                 /\ pc' = edge_after_synthesize
                 /\ UNCHANGED <<parsed, sku_calls>>

Next ==
    \/ Classify
    \/ Describe
    \/ Diagnose
    \/ Prescribe
    \/ Synthesize

Spec == Init /\ [][Next]_vars

-----------------------------------------------------------------------------
(* The describe and diagnose nodes of runs that classify has left with a   *)
(* structured reply: every combination of keyword groups, and lists of     *)
(* SKUs that are numeric or not, zero, raising or more than three.         *)

NodeEntities ==
    { [skus |-> skus, date_range |-> "yesterday"] :
        skus \in { <<>>, <<"123">>, <<"123", "456">>, <<"0", "456">>,
                   <<"abc", "123", "456", "789">> } }
        \cup { [skus |-> <<>>, date_range |-> date_range] :
                  date_range \in { "today", "last_week", "2026-01-15",
                                   "last-month", "month" } }

NodeInit ==
    /\ state \in { [initial_state(q) EXCEPT !.intent = i, !.entities = e] :
                      q \in NodeQuestions, i \in {"describe", "diagnose"},
                      e \in NodeEntities }
    /\ pc = edge_after_classify
    /\ visited = <<"classify">>
    /\ appended = [s \in Stages |-> <<>>]
    /\ sku_calls = <<>>
    /\ parsed = "structured"
    /\ shared \in BOOLEAN
    /\ user_sessions = <<>>
    /\ analysts = <<>>
    /\ now = 0
    /\ in_flight = {}
    /\ started = 0
    /\ agent_conversations = <<>>
    /\ agent_feedback = <<>>
    /\ db_up = TRUE
    /\ event = [kind |-> "none"]

NodeNext ==
    \/ Describe
    \/ Diagnose

NodeSpec == NodeInit /\ [][NodeNext]_vars

-----------------------------------------------------------------------------
(* The session layer: the SeniorAnalyst objects with their conversation    *)
(* memory, the session store of the Telegram front end and the feedback    *)
(* tools.                                                                  *)

(* the node the compiled graph runs after `node` *)
next_node(node, st) ==
    CASE node = "classify"   -> edge_after_classify
      [] node = "describe"   -> route_after_describe(st)
      [] node = "diagnose"   -> route_after_diagnose(st)
      [] node = "prescribe"  -> edge_after_prescribe
      [] node = "synthesize" -> edge_after_synthesize

(* one node of the graph; `env` holds what the reasoning service answers   *)
(* and which tools raise during this run                                   *)
run_node(node, st, env) ==
    CASE node = "classify"   -> classify_intent(st, env.classify)
      [] node = "describe"   -> describe(st, env.describe)
      [] node = "diagnose"   -> diagnose(st, env.diagnose, env.skus)
      [] node = "prescribe"  -> prescribe(st, env.prescribe)
      [] node = "synthesize" -> synthesize(st, env.synthesize)

RECURSIVE run_from(_, _, _)
RECURSIVE after_node(_, _, _, _)
(* what follows a node that returned `out`: its writes reach the state and  *)
(* the edge leaving the node picks the next one; a raise ends the run       *)
after_node(node, st, out, env) ==
    IF out.raised THEN Raised
    ELSE run_from(next_node(node, apply_writes(st, out)),
                  apply_writes(st, out), env)

run_from(node, st, env) ==
    IF node = "done" THEN [raised |-> FALSE, result |-> st]
    ELSE after_node(node, st, run_node(node, st, env), env)

(* analyst_graph.invoke(initial_state): a whole run, from the entry point *)
invoke(initial, env) == run_from("classify", initial, env)

(* Python's None *)
None == "<None>"

(* `not x` of Python, for a text or None *)
falsy(x) == x = None \/ x = ""

(* s[:n] *)
truncate(s, n) == IF Len(s) <= n THEN s ELSE SubSeq(s, 1, n)

(* json.dumps of a list of names *)
json_dumps(names) ==
    LET RECURSIVE joined(_)
        joined(rest) ==
            IF rest = <<>> THEN ""
            ELSE IF Len(rest) = 1 THEN "\"" \o rest[1] \o "\""
            ELSE "\"" \o rest[1] \o "\", " \o joined(Tail(rest))
    IN  "[" \o joined(names) \o "]"

(* ConversationMemory.__init__ *)
ConversationMemory(session_id) ==
    [ session_id      |-> session_id,
      history         |-> <<>>,
      last_question   |-> None,
      last_response   |-> None,
      last_tools_used |-> <<>> ]

(* SeniorAnalyst.__init__ *)
SeniorAnalyst(session_id) == [memory |-> ConversationMemory(session_id)]

ResponseLimit == 10000

(* faulty variant: the exception of the insert leaves the function *)
save_conversation_to_db_uncaught(session_id, question, response, intent, tools_used, db_ok) ==
    LET data == [ session_id |-> session_id,
                  question   |-> question,
                  response   |-> IF falsy(response) THEN None
                                 ELSE truncate(response, ResponseLimit),
                  intent     |-> intent,
                  tools_used |-> IF tools_used = <<>> THEN None
                                 ELSE json_dumps(tools_used) ]
    IN  [ raised |-> ~db_ok,
          saved  |-> db_ok,
          rows   |-> IF db_ok THEN <<data>> ELSE <<>> ]

(* save_conversation_to_db; the insert raises unless db_ok.  Both try       *)
(* blocks end in `except Exception: return False`: the function returns     *)
(* True with the row inserted, or False.                                    *)
save_conversation_to_db(session_id, question, response, intent, tools_used, db_ok) ==
    LET data == [ session_id |-> session_id,
                  question   |-> question,
                  response   |-> IF falsy(response) THEN None
                                 ELSE truncate(response, ResponseLimit),
                  intent     |-> intent,
                  tools_used |-> IF tools_used = <<>> THEN None
                                 ELSE json_dumps(tools_used) ]
    IN  [ raised |-> FALSE,
          saved  |-> db_ok,
          rows   |-> IF db_ok THEN <<data>> ELSE <<>> ]

(* faulty variant: the history is replaced by the new exchange *)
add_exchange_replacing(memory, question, response, intent, tools_used, at, db_ok) ==
    LET exchange == [ question |-> question, response |-> response,
                      intent |-> intent, tools_used |-> tools_used,
                      timestamp |-> at ]
    IN  [ memory |-> [memory EXCEPT !.history = <<exchange>>,
                                    !.last_question = question,
                                    !.last_response = response,
                                    !.last_tools_used = tools_used],
          saved  |-> save_conversation_to_db(memory.session_id, question,
                                             response, intent, tools_used,
                                             db_ok) ]

(* faulty variant: the last response and the last tools are not renewed *)
add_exchange_keeping_last_response(memory, question, response, intent, tools_used, at, db_ok) ==
    LET exchange == [ question |-> question, response |-> response,
                      intent |-> intent, tools_used |-> tools_used,
                      timestamp |-> at ]
    IN  [ memory |-> [memory EXCEPT !.history = Append(@, exchange),
                                    !.last_question = question],
          saved  |-> save_conversation_to_db(memory.session_id, question,
                                             response, intent, tools_used,
                                             db_ok) ]

(* ConversationMemory.add_exchange at the time `at`: the memory afterwards, *)
(* the rows the database has taken, and whether the save raised (the       *)
(* memory is written before the save is tried)                             *)
add_exchange(memory, question, response, intent, tools_used, at, db_ok) ==
    LET exchange == [ question |-> question, response |-> response,
                      intent |-> intent, tools_used |-> tools_used,
                      timestamp |-> at ]
    IN  [ memory |-> [memory EXCEPT !.history = Append(@, exchange),
                                    !.last_question = question,
                                    !.last_response = response,
                                    !.last_tools_used = tools_used],
          saved  |-> save_conversation_to_db(memory.session_id, question,
                                             response, intent, tools_used,
                                             db_ok) ]

(* ConversationMemory.clear *)
clear(memory) ==
    [memory EXCEPT !.history = <<>>, !.last_question = None,
                   !.last_response = None, !.last_tools_used = <<>>]

(* ConversationMemory.get_last_exchange *)
get_last_exchange(memory) ==
    IF memory.history # <<>> THEN memory.history[Len(memory.history)] ELSE None

(* [item.get("tool") for item in data_context] *)
tools_of(data_context) == [i \in 1..Len(data_context) |-> data_context[i].tool]

(* faulty variant: a run that raised is recorded as an exchange without a *)
(* response before the error is passed on                                 *)
after_invoke_recording_failure(self, question, run, at, db_ok) ==
    IF run.raised
    THEN [ raised |-> TRUE, run_raised |-> TRUE,
           self |-> [self EXCEPT !.memory =
                        add_exchange(self.memory, question, None, None, <<>>,
                                     at, db_ok).memory],
           rows |-> <<>>, response |-> None ]
    ELSE LET result == run.result
             added  == add_exchange(self.memory, question, result.response,
                                    result.intent,
                                    tools_of(result.data_context), at, db_ok)
         IN  [ raised     |-> added.saved.raised,
               run_raised |-> FALSE,
               self       |-> [self EXCEPT !.memory = added.memory],
               rows       |-> added.saved.rows,
               response   |-> result.response ]

(* the rest of ask once the graph run `run` is over: a raise passes       *)
(* through; a result is recorded in the memory and its response returned  *)
after_invoke(self, question, run, at, db_ok) ==
    IF run.raised
    THEN [ raised |-> TRUE, run_raised |-> TRUE, self |-> self, rows |-> <<>>,
           response |-> None ]
    ELSE LET result == run.result
             added  == add_exchange(self.memory, question, result.response,
                                    result.intent,
                                    tools_of(result.data_context), at, db_ok)
         IN  [ raised     |-> added.saved.raised,
               run_raised |-> FALSE,
               self       |-> [self EXCEPT !.memory = added.memory],
               rows       |-> added.saved.rows,
               response   |-> result.response ]

(* SeniorAnalyst.ask(question) at the time `at`: it raises or returns the  *)
(* response, leaving the analyst as `self`, the database having taken      *)
(* `rows`                                                                  *)
ask(self, question, env, at, db_ok) ==
    after_invoke(self, question, invoke(initial_state(question), env), at, db_ok)

-----------------------------------------------------------------------------
(* tools/feedback.py: valid_types *)
FeedbackTypes ==
    {"incorrect_data", "wrong_recommendation", "missing_info",
     "wrong_calculation", "other"}

(* faulty variant: the given type is stored as it is *)
valid_feedback_type_unchecked(feedback_type) == feedback_type

(* record_feedback, record_full_feedback: a type outside valid_types       *)
(* becomes 'other'                                                         *)
valid_feedback_type(feedback_type) ==
    IF feedback_type \notin FeedbackTypes THEN "other" ELSE feedback_type

FeedbackRecorded == "[ok] Fidbek zapisan. Spasibo!"
FeedbackNotRecorded == "[x] Ne udalos6 zapisat6 fidbek"
FullFeedbackRecorded == "[ok] Polnyj fidbek zapisan"
FullFeedbackNotRecorded == "[x] Owibka zapisi"

(* record_feedback.invoke(args); the insert raises unless db_ok *)
record_feedback(args, db_ok) ==
    LET data == [ feedback_type   |-> valid_feedback_type(args.feedback_type),
                  user_comment    |-> args.user_comment,
                  expected_answer |-> args.expected_answer,
                  status          |-> "new" ]
    IN  IF db_ok THEN [result |-> FeedbackRecorded, rows |-> <<data>>]
        ELSE [result |-> FeedbackNotRecorded, rows |-> <<>>]

FeedbackResponseLimit == 5000

(* record_full_feedback.invoke(args); the insert raises unless db_ok *)
record_full_feedback(args, db_ok) ==
    LET data == [ question        |-> args.question,
                  response        |-> IF falsy(args.response) THEN None
                                      ELSE truncate(args.response,
                                                    FeedbackResponseLimit),
                  feedback_type   |-> valid_feedback_type(args.feedback_type),
                  user_comment    |-> args.user_comment,
                  expected_answer |-> args.expected_answer,
                  tools_used      |-> IF args.tools_used = <<>> THEN None
                                      ELSE json_dumps(args.tools_used),
                  status          |-> "new" ]
    IN  IF db_ok THEN [result |-> FullFeedbackRecorded, rows |-> <<data>>]
        ELSE [result |-> FullFeedbackNotRecorded, rows |-> <<>>]

(* report_error: the keyword list of each feedback type *)
FeedbackWords ==
    [ incorrect_data       |-> <<"4ifr", "dann", "cisl", "summ">>,
      wrong_recommendation |-> <<"rekomend", "sovet", "dejstv">>,
      wrong_calculation    |-> <<"rasc3t", "formul", "scitaet">>,
      missing_info         |-> <<"net", "ne hvataet", "dobav">> ]

(* faulty variant: the missing-information words are tested first *)
comment_feedback_type_missing_first(comment) ==
    LET comment_lower == lower(comment)
    IN  IF any_word_in(comment_lower, FeedbackWords.missing_info)
        THEN "missing_info"
        ELSE IF any_word_in(comment_lower, FeedbackWords.incorrect_data)
        THEN "incorrect_data"
        ELSE IF any_word_in(comment_lower, FeedbackWords.wrong_recommendation)
        THEN "wrong_recommendation"
        ELSE IF any_word_in(comment_lower, FeedbackWords.wrong_calculation)
        THEN "wrong_calculation"
        ELSE "other"

(* report_error: the feedback type chosen from the comment, by the keyword *)
(* lists in the order they are tested                                      *)
comment_feedback_type(comment) ==
    LET comment_lower == lower(comment)
    IN  IF any_word_in(comment_lower, FeedbackWords.incorrect_data)
        THEN "incorrect_data"
        ELSE IF any_word_in(comment_lower, FeedbackWords.wrong_recommendation)
        THEN "wrong_recommendation"
        ELSE IF any_word_in(comment_lower, FeedbackWords.wrong_calculation)
        THEN "wrong_calculation"
        ELSE IF any_word_in(comment_lower, FeedbackWords.missing_info)
        THEN "missing_info"
        ELSE "other"

(* "маржа должна быть 50к, а не 30к", the example of the /error command *)
MarginComment == "marxa dolxna byt6 =0k, a ne +0k"

(* Comments given to /error: the example, "цифры не сходятся",             *)
(* "Совет не тот", "плохо", and one comment for every subset of the four   *)
(* keyword lists, a word of the list tested last coming first in the text. *)
Comments ==
    {MarginComment, "4ifry ne shodqtsq", "Sovet ne tot", "ploho"}
        \cup keyword_questions(<<"Dobav6", "formulu", "sovet", "4ifry">>)

(* comment_feedback_type, tabulated once for the comments *)
comment_types == [c \in Comments |-> comment_feedback_type(c)]

NoPriorQuestion == "Net predydu5ego voprosa dlq zapisi fidbeka"

(* faulty variant: the feedback is recorded without a previous question *)
report_error_unguarded(self, comment, expected, db_ok) ==
    record_full_feedback(
        [ question        |-> self.memory.last_question,
          response        |-> self.memory.last_response,
          feedback_type   |-> comment_types[comment],
          user_comment    |-> comment,
          expected_answer |-> IF falsy(expected) THEN "" ELSE expected,
          tools_used      |-> self.memory.last_tools_used ], db_ok)

(* SeniorAnalyst.report_error(comment, expected) *)
report_error(self, comment, expected, db_ok) ==
    IF falsy(self.memory.last_question)
    THEN [result |-> NoPriorQuestion, rows |-> <<>>]
    ELSE record_full_feedback(
             [ question        |-> self.memory.last_question,
               response        |-> self.memory.last_response,
               feedback_type   |-> comment_types[comment],
               user_comment    |-> comment,
               expected_answer |-> IF falsy(expected) THEN "" ELSE expected,
               tools_used      |-> self.memory.last_tools_used ], db_ok)

-----------------------------------------------------------------------------
(* telegram_bot.py: SESSION_TTL_HOURS *)
SESSION_TTL_HOURS == 24

(* d[k] = v of a Python dict *)
dict_set(d, k, v) == [x \in DOMAIN d \cup {k} |-> IF x = k THEN v ELSE d[x]]

(* The place of a newly created object: the first one not taken. *)
new_object(objects) ==
    CHOOSE i \in 1..(Cardinality(DOMAIN objects) + 1) :
        /\ i \notin DOMAIN objects
        /\ \A j \in 1..(i - 1) : j \in DOMAIN objects

(* The objects still referred to, by the session store or by a running     *)
(* call; the others are freed.                                             *)
referenced(objects, sessions, calls) ==
    LET live == { sessions[u].analyst : u \in DOMAIN sessions }
                    \cup { c.analyst : c \in calls }
    IN  [a \in DOMAIN objects \cap live |-> objects[a]]

(* faulty variant: a stored session is reused whatever its age *)
get_analyst_ignoring_ttl(sessions, objects, user_id, at) ==
    IF user_id \in DOMAIN sessions
    THEN [ user_sessions |-> [sessions EXCEPT ![user_id].last_activity = at],
           analysts      |-> objects,
           analyst       |-> sessions[user_id].analyst ]
    ELSE [ user_sessions |-> dict_set(sessions, user_id,
                                [analyst |-> new_object(objects),
                                 last_activity |-> at]),
           analysts      |-> dict_set(objects, new_object(objects),
                                      SeniorAnalyst("tg_" \o user_id)),
           analyst       |-> new_object(objects) ]

(* faulty variant: a reused session keeps the time of its last activity *)
get_analyst_keeping_last_activity(sessions, objects, user_id, at) ==
    IF /\ user_id \in DOMAIN sessions
       /\ at - sessions[user_id].last_activity < SESSION_TTL_HOURS
    THEN [ user_sessions |-> sessions,
           analysts      |-> objects,
           analyst       |-> sessions[user_id].analyst ]
    ELSE [ user_sessions |-> dict_set(sessions, user_id,
                                [analyst |-> new_object(objects),
                                 last_activity |-> at]),
           analysts      |-> dict_set(objects, new_object(objects),
                                      SeniorAnalyst("tg_" \o user_id)),
           analyst       |-> new_object(objects) ]

(* get_analyst(user_id) at the time `at`: the session store and the        *)
(* objects afterwards, and the analyst it returns                          *)
get_analyst(sessions, objects, user_id, at) ==
    IF /\ user_id \in DOMAIN sessions
       /\ at - sessions[user_id].last_activity < SESSION_TTL_HOURS
    THEN [ user_sessions |-> [sessions EXCEPT ![user_id].last_activity = at],
           analysts      |-> objects,
           analyst       |-> sessions[user_id].analyst ]
    ELSE [ user_sessions |-> dict_set(sessions, user_id,
                                [analyst |-> new_object(objects),
                                 last_activity |-> at]),
           analysts      |-> dict_set(objects, new_object(objects),
                                      SeniorAnalyst("tg_" \o user_id)),
           analyst       |-> new_object(objects) ]

(* faulty variant: a session idle for exactly the TTL is removed as well *)
cleanup_old_sessions_at_ttl(sessions, at) ==
    LET expired_users == { u \in DOMAIN sessions :
                             at - sessions[u].last_activity >= SESSION_TTL_HOURS }
    IN  [u \in DOMAIN sessions \ expired_users |-> sessions[u]]

(* cleanup_old_sessions() at the time `at` *)
cleanup_old_sessions(sessions, at) ==
    LET expired_users == { u \in DOMAIN sessions :
                             at - sessions[u].last_activity > SESSION_TTL_HOURS }
    IN  [u \in DOMAIN sessions \ expired_users |-> sessions[u]]

ContextExchanges == 5
ContextResponseLimit == 200

(* seq[-n:] *)
last_items(seq, n) ==
    IF Len(seq) <= n THEN seq ELSE SubSeq(seq, Len(seq) - n + 1, Len(seq))

(* format_history_for_context: the lines of the items from the i-th on *)
RECURSIVE context_lines(_, _)
context_lines(items, i) ==
    IF i > Len(items) THEN ""
    ELSE LET short_response ==
                 IF Len(items[i].response) > ContextResponseLimit
                 THEN truncate(items[i].response, ContextResponseLimit) \o "..."
                 ELSE items[i].response
         IN  SubSeq(Digits, i + 1, i + 1) \o ". Vopros: " \o items[i].question
                 \o " / Otvet: " \o short_response \o " // "
                 \o context_lines(items, i + 1)

(* faulty variant: the digest runs over the whole history *)
format_history_for_context_whole(history) ==
    IF history = <<>> THEN ""
    ELSE "Predydu5ie voprosy v 8toj sessii: // " \o context_lines(history, 1)

(* format_history_for_context(history) *)
format_history_for_context(history) ==
    IF history = <<>> THEN ""
    ELSE "Predydu5ie voprosy v 8toj sessii: // "
             \o context_lines(last_items(history, ContextExchanges), 1)

(* ConversationMemory.get_context *)
get_context(memory) ==
    IF memory.history = <<>> THEN ""
    ELSE format_history_for_context(memory.history)

-----------------------------------------------------------------------------
(* Bounds of the session layer. *)
MaxRecords == 2     \* ask calls started and feedback rows stored, together
MaxTicks == 3       \* the clock stops after this many half TTLs

Users == {"u1"}

(* The question asked through the Telegram front end: "план". *)
SessionQuestions == {"plan"}

(* The questions asked in the interactive session: "план", "Почему маржа". *)
AnalystQuestions == {"plan", "Pocemu marxa"}

(* What the services do during an ask: the classification reply is no      *)
(* JSON, plan_fact raises or no tool does, the synthesis reply is any of   *)
(* SynthesizeReplies; or the classification raises, or every tool of       *)
(* diagnose raises, or the intent is prescribe and every tool of prescribe *)
(* raises.                                                                 *)
AskEnvs ==
    LET env(c, f, g, h, s) ==
            [ classify |-> c, describe |-> f, diagnose |-> g, skus |-> {},
              prescribe |-> h, synthesize |-> s ]
        sorry  == [kind |-> "content", content |-> "sorry"]
        answer == [kind |-> "text", content |-> "answer"]
    IN  { env(sorry, f, {}, {}, s) :
            f \in {{}, {"plan_fact"}}, s \in SynthesizeReplies }
        \cup { env([kind |-> "raise"], {}, {}, {}, answer),
               env(sorry, {}, DiagnoseTools, {}, answer),
               env([kind |-> "content", content |-> "{intent:prescribe}"],
                   {}, {}, RecommendationTools, answer) }

(* The same for the Telegram front end, the synthesis reply being a text   *)
(* that is not empty, or an exception.                                     *)
SessionEnvs == { env \in AskEnvs : env.synthesize # [kind |-> "text", content |-> ""] }

(* The feedback types handed to the feedback tools when they are invoked   *)
(* directly.                                                               *)
FeedbackTypeInputs == FeedbackTypes \cup {"praise", ""}

Idle ==
    /\ state = initial_state("")
    /\ pc = "idle"
    /\ visited = <<>>
    /\ appended = [s \in Stages |-> <<>>]
    /\ sku_calls = <<>>
    /\ parsed = "pending"

SessionInit ==
    /\ Idle
    /\ shared \in BOOLEAN
    /\ user_sessions = <<>>
    /\ analysts = <<>>
    /\ now = 0
    /\ in_flight = {}
    /\ started = 0
    /\ agent_conversations = <<>>
    /\ agent_feedback = <<>>
    /\ db_up \in BOOLEAN
    /\ event = [kind |-> "none"]

concurrent_updates_enabled == TRUE

(* main: Application.builder().token(token).build() leaves the builder's    *)
(* concurrent_updates at its default, and no handler is added with          *)
(* block=False: the Application awaits the handler of one update before it  *)
(* takes the next update from its queue.                                    *)
concurrent_updates == FALSE

(* A handler starts while an earlier one waits for its worker thread only  *)
(* if the Application processes updates concurrently.                      *)
HandlerStarts == concurrent_updates \/ in_flight = {}

(* The part every handler that calls get_analyst shares: the session store *)
(* and the objects afterwards, `calls` being the calls then running.       *)
Access(got, calls) ==
    /\ user_sessions' = got.user_sessions
    /\ analysts' = referenced(got.analysts, got.user_sessions, calls)

(* What is noted of a handler that has called get_analyst: the analyst it  *)
(* got, and whether the stored session had been idle for longer than the   *)
(* TTL.                                                                    *)
AccessEvent(kind, user_id, got) ==
    [ kind    |-> kind,
      user_id |-> user_id,
      analyst |-> got.analyst,
      expired |-> /\ user_id \in DOMAIN user_sessions
                  /\ now - user_sessions[user_id].last_activity > SESSION_TTL_HOURS ]

(* time passes: half a TTL *)
Tick ==
    /\ now + (SESSION_TTL_HOURS \div 2) <= MaxTicks * (SESSION_TTL_HOURS \div 2)
    /\ now' = now + (SESSION_TTL_HOURS \div 2)
    /\ event' = [kind |-> "tick"]
    /\ UNCHANGED <<user_sessions, analysts, in_flight, started,
                   agent_conversations, agent_feedback, db_up, shared>>
    /\ UNCHANGED pipelineVars

(* process_question(user_id, question): get_analyst, then analyst.ask is   *)
(* handed to a worker thread                                               *)
ProcessQuestion ==
    /\ HandlerStarts
    /\ started + Len(agent_feedback) < MaxRecords
    /\ \E user_id \in Users, question \in SessionQuestions :
        LET got == get_analyst(user_sessions, analysts, user_id, now)
        IN  /\ in_flight' = in_flight \cup
                   { [ id       |-> started + 1,
                       user_id  |-> user_id,
                       analyst  |-> got.analyst,
                       question |-> question ] }
            /\ Access(got, in_flight')
            /\ event' = AccessEvent("question", user_id, got)
    /\ started' = started + 1
    /\ UNCHANGED <<now, agent_conversations, agent_feedback, db_up, shared>>
    /\ UNCHANGED pipelineVars

(* faulty variant: the call looks its analyst up in the session store when *)
(* it records the exchange                                                 *)
AskEndsOnStoredSession ==
    /\ \E call \in in_flight, env \in SessionEnvs :
        LET got == get_analyst(user_sessions, analysts, call.user_id, now)
            out == ask(got.analysts[got.analyst], call.question, env, now, db_up)
        IN  /\ in_flight' = in_flight \ {call}
            /\ user_sessions' = got.user_sessions
            /\ analysts' = referenced(
                   [got.analysts EXCEPT ![got.analyst] = out.self],
                   got.user_sessions, in_flight')
            /\ agent_conversations' = agent_conversations \o out.rows
            /\ event' = IF out.raised
                        THEN [kind |-> "ask_raised", user_id |-> call.user_id,
                              analyst |-> call.analyst,
                              run_raised |-> out.run_raised, env |-> env]
                        ELSE [kind |-> "answered", user_id |-> call.user_id,
                              analyst |-> call.analyst,
                              response |-> out.response]
    /\ UNCHANGED <<now, started, agent_feedback, db_up, shared>>
    /\ UNCHANGED pipelineVars

(* an analyst.ask call running on a worker thread comes to its end: the    *)
(* graph has run and add_exchange has recorded the exchange, or the run    *)
(* raised and the handler answers with its error message                   *)
AskEnds ==
    /\ \E call \in in_flight, env \in SessionEnvs :
        LET out == ask(analysts[call.analyst], call.question, env, now, db_up)
        IN  /\ in_flight' = in_flight \ {call}
            /\ analysts' = referenced(
                   [analysts EXCEPT ![call.analyst] = out.self],
                   user_sessions, in_flight')
            /\ agent_conversations' = agent_conversations \o out.rows
            /\ event' = IF out.raised
                        THEN [kind |-> "ask_raised", user_id |-> call.user_id,
                              analyst |-> call.analyst,
                              run_raised |-> out.run_raised, env |-> env]
                        ELSE [kind |-> "answered", user_id |-> call.user_id,
                              analyst |-> call.analyst,
                              response |-> out.response]
    /\ UNCHANGED <<user_sessions, now, started, agent_feedback, db_up, shared>>
    /\ UNCHANGED pipelineVars

(* start_command *)
StartCommand ==
    /\ HandlerStarts
    /\ \E user_id \in Users :
        LET got == get_analyst(user_sessions, analysts, user_id, now)
        IN  /\ Access(got, in_flight)
            /\ event' = AccessEvent("start", user_id, got)
    /\ UNCHANGED <<now, in_flight, started, agent_conversations,
                   agent_feedback, db_up, shared>>
    /\ UNCHANGED pipelineVars

(* history_command *)
HistoryCommand ==
    /\ HandlerStarts
    /\ \E user_id \in Users :
        LET got == get_analyst(user_sessions, analysts, user_id, now)
        IN  /\ Access(got, in_flight)
            /\ event' = AccessEvent("history", user_id, got) @@
                   [empty |-> got.analysts[got.analyst].memory.history = <<>>]
    /\ UNCHANGED <<now, in_flight, started, agent_conversations,
                   agent_feedback, db_up, shared>>
    /\ UNCHANGED pipelineVars

(* error_command: without a comment it answers with the usage text,        *)
(* otherwise with what analyst.report_error(comment) returns               *)
ErrorCommand ==
    /\ HandlerStarts
    /\ \E user_id \in Users, comment \in {None, MarginComment} :
        LET got == get_analyst(user_sessions, analysts, user_id, now)
        IN  /\ Access(got, in_flight)
            /\ IF falsy(comment)
               THEN /\ event' = AccessEvent("error_usage", user_id, got)
                    /\ UNCHANGED agent_feedback
               ELSE LET out == report_error(got.analysts[got.analyst], comment,
                                            None, db_up)
                    IN  /\ started + Len(agent_feedback) + Len(out.rows) <= MaxRecords
                        /\ agent_feedback' = agent_feedback \o out.rows
                        /\ event' = AccessEvent("error", user_id, got) @@
                               [comment |-> comment, result |-> out.result]
    /\ UNCHANGED <<now, in_flight, started, agent_conversations, db_up, shared>>
    /\ UNCHANGED pipelineVars

(* newsession_command *)
NewSessionCommand ==
    /\ HandlerStarts
    /\ \E user_id \in Users :
        LET got == [ user_sessions |-> dict_set(user_sessions, user_id,
                                          [analyst |-> new_object(analysts),
                                           last_activity |-> now]),
                     analysts      |-> dict_set(analysts, new_object(analysts),
                                                SeniorAnalyst("tg_" \o user_id)),
                     analyst       |-> new_object(analysts) ]
        IN  /\ Access(got, in_flight)
            /\ event' = [kind |-> "newsession", user_id |-> user_id,
                         analyst |-> got.analyst]
    /\ UNCHANGED <<now, in_flight, started, agent_conversations,
                   agent_feedback, db_up, shared>>
    /\ UNCHANGED pipelineVars

(* periodic_cleanup: one round of cleanup_old_sessions *)
PeriodicCleanup ==
    /\ user_sessions' = cleanup_old_sessions(user_sessions, now)
    /\ analysts' = referenced(analysts, user_sessions', in_flight)
    /\ event' = [kind |-> "cleanup"]
    /\ UNCHANGED <<now, in_flight, started, agent_conversations,
                   agent_feedback, db_up, shared>>
    /\ UNCHANGED pipelineVars

SessionNext ==
    \/ Tick
    \/ ProcessQuestion
    \/ AskEnds
    \/ StartCommand
    \/ HistoryCommand
    \/ ErrorCommand
    \/ NewSessionCommand
    \/ PeriodicCleanup

(* The Telegram front end: handlers, worker threads and the cleanup task. *)
SessionSpec == SessionInit /\ [][SessionNext]_vars

(* start_command of one of two users *)
Visit ==
    /\ HandlerStarts
    /\ \E user_id \in {"u1", "u2"} :
        LET got == get_analyst(user_sessions, analysts, user_id, now)
        IN  /\ Access(got, in_flight)
            /\ event' = AccessEvent("start", user_id, got)
    /\ UNCHANGED <<now, in_flight, started, agent_conversations,
                   agent_feedback, db_up, shared>>
    /\ UNCHANGED pipelineVars

StoreNext ==
    \/ Tick
    \/ Visit
    \/ PeriodicCleanup

(* The session store of two users and the cleanup task. *)
StoreSpec == SessionInit /\ [][StoreNext]_vars

-----------------------------------------------------------------------------
(* The interactive session: one SeniorAnalyst, asked and told about errors *)
(* in turn, the calls of its memory, and the feedback tools invoked on     *)
(* their own.                                                              *)

AnalystInit ==
    /\ Idle
    /\ shared \in BOOLEAN
    /\ user_sessions = <<>>
    /\ analysts = [a \in {1} |-> SeniorAnalyst("cli")]
    /\ now = 0
    /\ in_flight = {}
    /\ started = 0
    /\ agent_conversations = <<>>
    /\ agent_feedback = <<>>
    /\ db_up \in BOOLEAN
    /\ event = [kind |-> "none"]

(* analyst.ask(question) *)
Ask ==
    /\ started + Len(agent_feedback) < MaxRecords
    /\ \E question \in AnalystQuestions, env \in AskEnvs :
        LET out == ask(analysts[1], question, env, now, db_up)
        IN  /\ analysts' = [analysts EXCEPT ![1] = out.self]
            /\ agent_conversations' = agent_conversations \o out.rows
            /\ event' = IF out.raised
                        THEN [kind |-> "ask_raised", analyst |-> 1,
                              run_raised |-> out.run_raised, env |-> env]
                        ELSE [kind |-> "answered", analyst |-> 1,
                              response |-> out.response]
    /\ started' = started + 1
    /\ UNCHANGED <<user_sessions, now, in_flight, agent_feedback, db_up, shared>>
    /\ UNCHANGED pipelineVars

(* analyst.report_error(comment) *)
ReportError ==
    /\ \E comment \in Comments :
        LET out == report_error(analysts[1], comment, None, db_up)
        IN  /\ started + Len(agent_feedback) + Len(out.rows) <= MaxRecords
            /\ agent_feedback' = agent_feedback \o out.rows
            /\ event' = [kind |-> "report_error", analyst |-> 1,
                         comment |-> comment, result |-> out.result]
    /\ UNCHANGED <<user_sessions, analysts, now, in_flight, started,
                   agent_conversations, db_up, shared>>
    /\ UNCHANGED pipelineVars

(* analyst.memory.clear() *)
Clear ==
    /\ analysts' = [analysts EXCEPT ![1].memory = clear(@)]
    /\ event' = [kind |-> "clear", analyst |-> 1]
    /\ UNCHANGED <<user_sessions, now, in_flight, started, agent_conversations,
                   agent_feedback, db_up, shared>>
    /\ UNCHANGED pipelineVars

(* analyst.memory.get_context() and analyst.memory.get_last_exchange() *)
ReadMemory ==
    /\ event' = [kind |-> "read_memory", analyst |-> 1,
                 context |-> get_context(analysts[1].memory),
                 last_exchange |-> get_last_exchange(analysts[1].memory)]
    /\ UNCHANGED <<user_sessions, analysts, now, in_flight, started,
                   agent_conversations, agent_feedback, db_up, shared>>
    /\ UNCHANGED pipelineVars

(* record_feedback invoked as a tool *)
RecordFeedback ==
    /\ \E feedback_type \in FeedbackTypeInputs :
        LET out == record_feedback(
                       [ feedback_type   |-> feedback_type,
                         user_comment    |-> "ne tak",
                         expected_answer |-> None ], db_up)
        IN  /\ started + Len(agent_feedback) + Len(out.rows) <= MaxRecords
            /\ agent_feedback' = agent_feedback \o out.rows
            /\ event' = [kind |-> "record_feedback",
                         feedback_type |-> feedback_type,
                         result |-> out.result]
    /\ UNCHANGED <<user_sessions, analysts, now, in_flight, started,
                   agent_conversations, db_up, shared>>
    /\ UNCHANGED pipelineVars

(* record_full_feedback invoked as a tool *)
RecordFullFeedback ==
    /\ \E feedback_type \in FeedbackTypeInputs :
        LET out == record_full_feedback(
                       [ question        |-> "plan",
                         response        |-> "answer",
                         feedback_type   |-> feedback_type,
                         user_comment    |-> "ne tak",
                         expected_answer |-> None,
                         tools_used      |-> <<>> ], db_up)
        IN  /\ started + Len(agent_feedback) + Len(out.rows) <= MaxRecords
            /\ agent_feedback' = agent_feedback \o out.rows
            /\ event' = [kind |-> "record_full_feedback",
                         feedback_type |-> feedback_type,
                         result |-> out.result]
    /\ UNCHANGED <<user_sessions, analysts, now, in_flight, started,
                   agent_conversations, db_up, shared>>
    /\ UNCHANGED pipelineVars

AnalystNext ==
    \/ Ask
    \/ ReportError
    \/ Clear
    \/ ReadMemory
    \/ RecordFeedback
    \/ RecordFullFeedback

AnalystSpec == AnalystInit /\ [][AnalystNext]_vars

-----------------------------------------------------------------------------
(* The delivery of an answer to the chat: handle_message and               *)
(* button_callback_handler send a response of more than 4000 characters in *)
(* parts.                                                                  *)

MaxParts == 3       \* the longest response has this many full parts and a rest

ChunkSize == 4000

(* faulty variant: every part is cut one character short *)
reply_parts_cut_short(response) ==
    IF Len(response) > ChunkSize
    THEN LET n == (Len(response) + ChunkSize - 1) \div ChunkSize
         IN  [ k \in 1..n |->
                 [ text |-> SubSeq(response, (k - 1) * ChunkSize + 1,
                                   IF k * ChunkSize - 1 < Len(response)
                                   THEN k * ChunkSize - 1 ELSE Len(response)),
                   reply_markup |-> k = n ] ]
    ELSE << [text |-> response, reply_markup |-> TRUE] >>

(* The messages sent for a response, in the order they are sent:           *)
(*     parts = [response[i:i+4000] for i in range(0, len(response), 4000)] *)
(* when len(response) > 4000, the last one with the keyboard; else the     *)
(* response in one message with the keyboard.  range(0, len, 4000) has     *)
(* ceil(len / 4000) elements, the k-th being (k - 1) * 4000.               *)
reply_parts(response) ==
    IF Len(response) > ChunkSize
    THEN LET n == (Len(response) + ChunkSize - 1) \div ChunkSize
         IN  [ k \in 1..n |->
                 [ text |-> SubSeq(response, (k - 1) * ChunkSize + 1,
                                   IF k * ChunkSize < Len(response)
                                   THEN k * ChunkSize ELSE Len(response)),
                   reply_markup |-> k = n ] ]
    ELSE << [text |-> response, reply_markup |-> TRUE] >>

(* The responses delivered: the first characters of a repeated pattern, up *)
(* to MaxParts full parts and a rest that is empty, short, a quarter or     *)
(* half of a part, or nearly a part.                                       *)
ResponseTexts ==
    LET RECURSIVE copies(_, _)
        copies(p, c) == IF c = 0 THEN ""
                        ELSE IF c % 2 = 0
                        THEN LET half == copies(p, c \div 2) IN half \o half
                        ELSE p \o copies(p, c - 1)
        first_chars(p, n) == copies(p, n \div Len(p)) \o SubSeq(p, 1, n % Len(p))
    IN  { first_chars(p, k * ChunkSize + d) :
            p \in { "abcdefghijklmnopqrstuvwxyz0123456789 ", "*Marxa* _+0k_ " },
            k \in 0..MaxParts,
            d \in {0, 1, 2, ChunkSize \div 4, ChunkSize \div 2, ChunkSize - 2,
                    ChunkSize - 1} }

DeliveryInit ==
    /\ Idle
    /\ shared = FALSE
    /\ user_sessions = <<>>
    /\ analysts = <<>>
    /\ now = 0
    /\ in_flight = {}
    /\ started = 0
    /\ agent_conversations = <<>>
    /\ agent_feedback = <<>>
    /\ db_up = TRUE
    /\ event = [kind |-> "none"]

(* handle_message, once process_question has returned `response` *)
SendAnswer ==
    /\ \E response \in ResponseTexts :
        event' = [ kind |-> "reply_text", response |-> response,
                   messages |-> reply_parts(response) ]
    /\ UNCHANGED <<user_sessions, analysts, now, in_flight, started,
                   agent_conversations, agent_feedback, db_up, shared>>
    /\ UNCHANGED pipelineVars

(* button_callback_handler, once process_question has returned `response` *)
SendButtonAnswer ==
    /\ \E response \in ResponseTexts :
        event' = [ kind |-> "send_message", response |-> response,
                   messages |-> reply_parts(response) ]
    /\ UNCHANGED <<user_sessions, analysts, now, in_flight, started,
                   agent_conversations, agent_feedback, db_up, shared>>
    /\ UNCHANGED pipelineVars

DeliveryNext ==
    \/ SendAnswer
    \/ SendButtonAnswer

DeliverySpec == DeliveryInit /\ [][DeliveryNext]_vars

-----------------------------------------------------------------------------
(* The context digest of histories longer than the digest, with responses  *)
(* shorter than the cut, as long as it and longer.                         *)

MaxExchanges == 6   \* the exchanges of a history

ContextResponses ==
    LET pattern == "abcdefghijklmnopqrstuvwxyz0123456789 "
        RECURSIVE first_chars(_)
        first_chars(n) ==
            IF n = 0 THEN ""
            ELSE first_chars(n - 1)
                     \o SubSeq(pattern, ((n - 1) % Len(pattern)) + 1,
                                       ((n - 1) % Len(pattern)) + 1)
    IN  { first_chars(n) : n \in {3, ContextResponseLimit, ContextResponseLimit + 1} }

(* analyst.memory.add_exchange(...), as ask calls it with the response of  *)
(* a run                                                                   *)
AddExchange ==
    /\ Len(analysts[1].memory.history) < MaxExchanges
    /\ \E response \in ContextResponses :
        LET added == add_exchange(analysts[1].memory, "plan", response,
                                  "describe", <<"plan_fact">>, now, db_up)
        IN  /\ analysts' = [analysts EXCEPT ![1].memory = added.memory]
            /\ agent_conversations' = agent_conversations \o added.saved.rows
    /\ event' = [kind |-> "add_exchange", analyst |-> 1]
    /\ UNCHANGED <<user_sessions, now, in_flight, started, agent_feedback,
                   db_up, shared>>
    /\ UNCHANGED pipelineVars

ContextNext ==
    \/ AddExchange
    \/ ReadMemory

ContextSpec == AnalystInit /\ [][ContextNext]_vars

-----------------------------------------------------------------------------
(* Properties.                                                             *)

Range(seq) == { seq[i] : i \in 1..Len(seq) }

Count(seq, x) == Cardinality({ i \in 1..Len(seq) : seq[i] = x })

IsPrefix(a, b) == Len(a) <= Len(b) /\ SubSeq(b, 1, Len(a)) = a

Ran(node) == node \in Range(visited)

(* C1: whatever intent classify produced, describe runs before any of      *)
(* diagnose, prescribe and synthesize, synthesize runs at most once, and   *)
(* the run is at END exactly when synthesize has run, as the last node.    *)
C1_DescribeFirstSynthesizeLast ==
    /\ \A i \in 1..Len(visited) :
          visited[i] \in {"diagnose", "prescribe", "synthesize"}
              => \E j \in 1..(i - 1) : visited[j] = "describe"
    /\ Count(visited, "synthesize") <= 1
    /\ Ran("synthesize") <=> pc = "done"
    /\ pc = "done" => visited[Len(visited)] = "synthesize"

(* a finished run whose intent is none of the four enumerated values *)
C1_Witness ==
    /\ pc = "done"
    /\ state.intent \notin Intents
    /\ visited = <<"classify", "describe", "synthesize">>

PrescribePath == <<"classify", "describe", "diagnose", "prescribe", "synthesize">>

(* C2: once the intent is prescribe, the nodes run are a prefix of         *)
(* classify, describe, diagnose, prescribe, synthesize, and a finished run *)
(* ran exactly that sequence.                                              *)
C2_PrescribeAfterDiagnose ==
    (parsed # "pending" /\ state.intent = "prescribe") =>
        /\ IsPrefix(visited, PrescribePath)
        /\ pc = "done" => visited = PrescribePath

C2_Witness ==
    /\ pc = "done"
    /\ state.intent = "prescribe"
    /\ Ran("diagnose") /\ Ran("prescribe")

(* C3: diagnose runs iff the intent is diagnose or prescribe, prescribe    *)
(* runs iff the intent is prescribe, and for describe or clarify the run   *)
(* goes from describe straight to synthesize.                              *)
C3_StagesByIntent ==
    /\ Ran("diagnose") => state.intent \in {"diagnose", "prescribe"}
    /\ Ran("prescribe") => state.intent = "prescribe"
    /\ pc = "done" =>
          /\ Ran("diagnose") <=> state.intent \in {"diagnose", "prescribe"}
          /\ Ran("prescribe") <=> state.intent = "prescribe"
    /\ (Ran("describe") /\ state.intent \in {"describe", "clarify"}) =>
          /\ IsPrefix(visited, <<"classify", "describe", "synthesize">>)
          /\ pc \in {"synthesize", "done", "failed"}

C3_Witness ==
    /\ pc = "done"
    /\ parsed = "structured"
    /\ state.intent = "clarify"
    /\ visited = <<"classify", "describe", "synthesize">>

(* C4: at every step of a run, reducer included, the data_context before  *)
(* the step is a prefix of the data_context after it.                      *)
C4_DataContextAppendOnly ==
    [][IsPrefix(state.data_context, state'.data_context)]_vars

(* diagnose and prescribe have both extended a non-empty list that the     *)
(* runtime shares with them                                                *)
C4_Witness ==
    /\ shared
    /\ Ran("prescribe")
    /\ appended["describe"] # <<>>
    /\ appended["diagnose"] # <<>>
    /\ appended["prescribe"] # <<>>

(* The keyword groups in stage order and, within a stage, in the order the *)
(* stage checks them; each with the tools whose entries it appends.        *)
GroupOrder ==
    << {"margin_summary"}, {"plan_fact", "plan_forecast"}, {"top_margin_sku"},
       {"bottom_margin_sku"}, {"funnel_summary"}, {"stock_summary"},
       {"ads_summary", "high_drr_campaigns"}, {"margin_trend"},
       {"underperforming_sku"},
       {"diagnose_sku"}, {"analyze_margin_change"}, {"compare_periods"},
       {"find_anomalies"},
       {"actionable_insights"}, {"optimization_candidates"},
       {"scaling_candidates"}, {"plan_recommendations"} >>

GroupRank(tool) == CHOOSE k \in 1..Len(GroupOrder) : tool \in GroupOrder[k]

(* C5: the entries of data_context are in stage order, and in              *)
(* keyword-group-check order within a stage: no entry comes after an entry *)
(* of a later stage or of a later keyword group.                           *)
C5_StageThenGroupOrder ==
    \A i, j \in 1..Len(state.data_context) :
        i < j => GroupRank(state.data_context[i].tool)
                     <= GroupRank(state.data_context[j].tool)

DescribeGroups ==
    { "describe_margin", "describe_plan", "describe_top", "describe_bottom",
      "describe_funnel", "describe_stock", "describe_ads", "describe_trend",
      "describe_under" }

DiagnoseGroups == {"diagnose_causal", "diagnose_compare", "diagnose_anomaly"}

PrescribeGroups ==
    {"prescribe_action", "prescribe_optim", "prescribe_scale", "prescribe_plan"}

MatchesNone(question, groups) == question_matches[question] \cap groups = {}

(* C6: after describe has run the data_context has at least one entry.     *)
C6_DescribeNonEmpty ==
    Ran("describe") => Len(state.data_context) >= 1

(* describe has run on a question that matches none of its keyword groups *)
C6_Witness ==
    /\ Ran("describe")
    /\ ~Ran("diagnose")
    /\ MatchesNone(state.question, DescribeGroups)
    /\ Len(state.data_context) >= 1

(* C7: after diagnose has run the data_context holds an entry whose tool   *)
(* name begins with analyze, compare, find_anomalies or diagnose_sku.      *)
C7_DiagnoseHasDiagnosticEntry ==
    Ran("diagnose") =>
        \E i \in 1..Len(state.data_context) :
            \E prefix \in {"analyze", "compare", "find_anomalies", "diagnose_sku"} :
                startswith(state.data_context[i].tool, prefix)

(* diagnose has run with no SKU diagnosed and no keyword group matched *)
C7_Witness ==
    /\ Ran("diagnose")
    /\ MatchesNone(state.question, DiagnoseGroups)
    /\ ToolsOf(appended["diagnose"]) = <<"analyze_margin_change">>

(* C8: after prescribe has run the data_context holds an entry of a        *)
(* recommendation tool, and on a question that matches none of the         *)
(* prescribe keyword groups the stage appended exactly one entry,          *)
(* actionable_insights.                                                    *)
C8_PrescribeHasRecommendation ==
    Ran("prescribe") =>
        /\ \E i \in 1..Len(state.data_context) :
              state.data_context[i].tool \in
                  {"actionable_insights", "optimization_candidates",
                   "scaling_candidates", "plan_recommendations"}
        /\ MatchesNone(state.question, PrescribeGroups)
              => ToolsOf(appended["prescribe"]) = <<"actionable_insights">>

(* prescribe has run on a question that matches none of its keyword groups *)
C8_Witness ==
    /\ Ran("prescribe")
    /\ MatchesNone(state.question, PrescribeGroups)
    /\ Len(appended["prescribe"]) = 1

(* C9: on the keyword fallback, a question with a causal marker word gets  *)
(* intent diagnose, whatever other marker words it has.                    *)
C9_FallbackCausalIsDiagnose ==
    (parsed = "fallback" /\ matches(state.question, "classify_causal"))
        => state.intent = "diagnose"

(* a fallback on a question with a causal and an action-request marker *)
C9_Witness ==
    /\ parsed = "fallback"
    /\ matches(state.question, "classify_causal")
    /\ matches(state.question, "classify_action")
    /\ state.intent = "diagnose"

(* C10 as stated: on the keyword fallback, a question with an              *)
(* action-request marker gets intent prescribe.                            *)
C10_FallbackActionIsPrescribe ==
    (parsed = "fallback" /\ matches(state.question, "classify_action"))
        => state.intent = "prescribe"

(* C10 amended: on the keyword fallback, a question with an action-request *)
(* marker and no causal marker word gets intent prescribe.                 *)
C10_FallbackActionNoCausalIsPrescribe ==
    (/\ parsed = "fallback"
     /\ matches(state.question, "classify_action")
     /\ ~matches(state.question, "classify_causal"))
        => state.intent = "prescribe"

(* a fallback on a question with an action-request and a factual-query     *)
(* marker and no causal marker                                             *)
C10_Witness ==
    /\ parsed = "fallback"
    /\ matches(state.question, "classify_action")
    /\ matches(state.question, "classify_fact")
    /\ ~matches(state.question, "classify_causal")
    /\ state.intent = "prescribe"

-----------------------------------------------------------------------------
(* C11: whenever the service answers the classification prompt with a text *)
(* from which no structured payload is obtained (no JSON, a broken fence,  *)
(* JSON that is no object), classify_intent takes the keyword fallback and *)
(* does not raise: no run ends in classify after the service has answered. *)
(* Violated: a reply such as [] is parsed by json.loads, and result.get    *)
(* then raises AttributeError, which the except clause does not catch.     *)
C11_ClassifyRecoversFromAnyReply == parsed # "parse_error"

(* C12: once classify has set the intent, no later stage changes it. *)
C12_IntentFixedAfterClassify ==
    [][(parsed \in {"structured", "fallback"} => state'.intent = state.intent)]_vars

C12_Witness ==
    /\ pc = "done"
    /\ parsed = "structured"
    /\ state.intent = "diagnose"
    /\ visited = <<"classify", "describe", "diagnose", "synthesize">>

-----------------------------------------------------------------------------
(* The handlers that call get_analyst. *)
AccessKinds == {"question", "start", "history", "error", "error_usage"}

(* C13: when a handler reaches get_analyst for a user whose stored session *)
(* has been idle for longer than the TTL, the stored analyst is not the    *)
(* one returned: a new one, with an empty history and no last question, is *)
(* stored under the user with the time of the access, and returned.        *)
C13_ExpiredSessionReplaced ==
    [][(\A u \in DOMAIN user_sessions :
           (/\ event'.kind \in AccessKinds
            /\ event'.user_id = u
            /\ now - user_sessions[u].last_activity > SESSION_TTL_HOURS)
           => (/\ event'.analyst \notin DOMAIN analysts
               /\ user_sessions'[u] =
                      [analyst |-> event'.analyst, last_activity |-> now']
               /\ analysts'[event'.analyst].memory.history = <<>>
               /\ analysts'[event'.analyst].memory.last_question = None))]_vars

C13_Witness ==
    /\ event.kind \in AccessKinds
    /\ event.expired
    /\ analysts[event.analyst].memory.history = <<>>
    /\ user_sessions[event.user_id].analyst = event.analyst
    /\ agent_conversations # <<>>

(* C14: but for clear(), the history of an analyst only grows: an ask that *)
(* returns appends exactly one exchange at the end and leaves the earlier  *)
(* ones as they were; report_error, get_context, get_last_exchange and the *)
(* feedback tools leave the history as it was.                             *)
C14_HistoryOnlyGrows ==
    [][(\A a \in DOMAIN analysts :
           event'.kind # "clear"
           => (/\ IsPrefix(analysts[a].memory.history, analysts'[a].memory.history)
               /\ IF event'.kind = "answered"
                  THEN Len(analysts'[a].memory.history)
                           = Len(analysts[a].memory.history) + 1
                  ELSE analysts'[a].memory.history = analysts[a].memory.history))]_vars

C14_Witness ==
    /\ event.kind = "answered"
    /\ Len(analysts[1].memory.history) = 2
    /\ analysts[1].memory.history[1].question = "plan"
    /\ analysts[1].memory.history[2].question = "Pocemu marxa"

(* C15: report_error on an analyst without an exchange (new, or cleared)   *)
(* returns the no-previous-question text and stores no feedback row,       *)
(* whatever the comment.                                                   *)
C15_NoPriorQuestionNoFeedback ==
    [][((event'.kind = "report_error" /\ analysts[1].memory.history = <<>>)
           => (event'.result = NoPriorQuestion /\ agent_feedback' = agent_feedback))]_vars

C15_Witness ==
    /\ event.kind = "report_error"
    /\ event.result = NoPriorQuestion
    /\ analysts[1].memory.history = <<>>
    /\ agent_conversations # <<>>
    /\ db_up

(* C16: every row of agent_feedback has a feedback_type of the closed set, *)
(* and a tool handed a type outside the set stores the row as other.       *)
C16_FeedbackTypeClosed ==
    [][(/\ \A i \in 1..Len(agent_feedback') :
               agent_feedback'[i].feedback_type \in FeedbackTypes
        /\ (/\ event'.kind \in {"record_feedback", "record_full_feedback"}
             /\ event'.feedback_type \notin FeedbackTypes
             /\ Len(agent_feedback') > Len(agent_feedback))
            => agent_feedback'[Len(agent_feedback')].feedback_type = "other")]_vars

C16_Witness ==
    /\ event.kind = "record_full_feedback"
    /\ event.feedback_type = "praise"
    /\ agent_feedback # <<>>
    /\ agent_feedback[Len(agent_feedback)].feedback_type = "other"

(* C17: a feedback row whose comment is the margin example is stored as    *)
(* incorrect_data, and one whose comment ("плохо") has no keyword as       *)
(* other.  Violated: none of the keywords of report_error occurs in the    *)
(* example, which is stored as other.                                      *)
C17_MarginCommentIsIncorrectData ==
    \A i \in 1..Len(agent_feedback) :
        /\ agent_feedback[i].user_comment = MarginComment
               => agent_feedback[i].feedback_type = "incorrect_data"
        /\ agent_feedback[i].user_comment = "ploho"
               => agent_feedback[i].feedback_type = "other"

C20_EmptyResponseNotRecorded ==
    /\ ~(event.kind = "answered" /\ event.response = "")
    /\ \A i \in 1..Len(analysts[1].memory.history) :
           analysts[1].memory.history[i].response # ""

(* C21: a failing insert does not reach the caller.  ask raises only when  *)
(* the graph run raised: with the database down it still returns the       *)
(* response and the exchange is the last of the in-memory history, no row  *)
(* being stored; record_full_feedback then returns its error text.         *)
C21_PersistenceFailureRecovered ==
    /\ event.kind = "ask_raised" => event.run_raised
    /\ (~db_up /\ event.kind = "answered") =>
          /\ analysts[1].memory.history # <<>>
          /\ get_last_exchange(analysts[1].memory).response = event.response
          /\ analysts[1].memory.last_response = event.response
          /\ agent_conversations = <<>>
    /\ (~db_up /\ event.kind = "record_full_feedback") =>
          /\ event.result = FullFeedbackNotRecorded
          /\ agent_feedback = <<>>

(* the database is down, a question has been answered and recorded in the  *)
(* memory, and record_full_feedback has then been invoked                  *)
C21_Witness ==
    /\ ~db_up
    /\ event.kind = "record_full_feedback"
    /\ event.result = FullFeedbackNotRecorded
    /\ Len(analysts[1].memory.history) = 1
    /\ agent_conversations = <<>>

(* the texts of a sequence of messages, one after the other *)
RECURSIVE Concatenation(_)
Concatenation(messages) ==
    IF messages = <<>> THEN ""
    ELSE Head(messages).text \o Concatenation(Tail(messages))

(* C22: a response of more than 4000 characters is sent as parts of at     *)
(* most 4000 characters each, which put together in the order they are     *)
(* sent are the response; a response of at most 4000 characters is sent as *)
(* one message.                                                            *)
C22_ChunksRebuildResponse ==
    event.kind \in {"reply_text", "send_message"} =>
        /\ \A k \in 1..Len(event.messages) : Len(event.messages[k].text) <= 4000
        /\ Concatenation(event.messages) = event.response
        /\ Len(event.response) <= 4000 => Len(event.messages) = 1
        /\ Len(event.response) > 4000 => Len(event.messages) > 1

(* a response of two full parts and a rest of one character, sent as three *)
(* messages                                                                *)
C22_Witness ==
    /\ event.kind = "send_message"
    /\ Len(event.response) = 8001
    /\ Len(event.messages) = 3
    /\ Len(event.messages[3].text) = 1

(* C23: a run in which every call of the reasoning service and of a tool   *)
(* returns comes to END after synthesize, no stage having run twice: no    *)
(* stage runs twice, a run stops before END only where such a call raised, *)
(* and a run at END has synthesize as its last node.  Violated: classify   *)
(* raises on a reply it was given (see C11), and the run stops there.      *)
C23_RunReachesEnd ==
    /\ \A s \in Stages : Count(visited, s) <= 1
    /\ pc \in Stages \cup {"done", "failed"}
    /\ pc = "failed" => parsed # "parse_error"
    /\ pc = "done" => visited[Len(visited)] = "synthesize"

(* C24: at the end of a run the data_context has one entry per tool        *)
(* invocation of the run, in the order of the invocations, so that the     *)
(* tools_used of the exchange are the tools invoked.  Violated: the nodes  *)
(* after describe return the whole list to a channel that adds it to what  *)
(* it holds (see C5).                                                      *)
C24_OneEntryPerInvocation ==
    pc = "done" =>
        tools_of(state.data_context)
            = tools_of(appended["describe"] \o appended["diagnose"]
                           \o appended["prescribe"])

(* C25: synthesize leaves question, intent, entities, data_context,        *)
(* insights and recommendations as they were on its entry.  Violated: the  *)
(* dict synthesize returns carries the data_context it was given, which    *)
(* the channel adds to the one it holds (see C5).                          *)
C25_SynthesizeWritesResponseOnly ==
    [][((pc = "synthesize" /\ pc' = "done") =>
           \A key \in {"question", "intent", "entities", "data_context",
                        "insights", "recommendations"} :
               state'[key] = state[key])]_vars


(* The keyword groups of describe in the order they are checked, each with *)
(* the tools of the entries it appends.                                    *)
DescribeGroupTools ==
    << [group |-> "describe_margin", tools |-> <<"margin_summary">>],
       [group |-> "describe_plan",   tools |-> <<"plan_fact", "plan_forecast">>],
       [group |-> "describe_top",    tools |-> <<"top_margin_sku">>],
       [group |-> "describe_bottom", tools |-> <<"bottom_margin_sku">>],
       [group |-> "describe_funnel", tools |-> <<"funnel_summary">>],
       [group |-> "describe_stock",  tools |-> <<"stock_summary">>],
       [group |-> "describe_ads",    tools |-> <<"ads_summary", "high_drr_campaigns">>],
       [group |-> "describe_trend",  tools |-> <<"margin_trend">>],
       [group |-> "describe_under",  tools |-> <<"underperforming_sku">>] >>

RECURSIVE MatchedTools(_, _)
(* the tools of the groups from the k-th on that the question matches *)
MatchedTools(question, k) ==
    IF k > Len(DescribeGroupTools) THEN <<>>
    ELSE (IF DescribeGroupTools[k].group \in question_matches[question]
          THEN DescribeGroupTools[k].tools ELSE <<>>)
             \o MatchedTools(question, k + 1)

C27_MatchedGroupsInFixedOrder ==
    (Ran("describe") /\ ~MatchesNone(state.question, DescribeGroups)) =>
        ToolsOf(appended["describe"]) = MatchedTools(state.question, 1)

(* describe has run on a question that matches the plan, the advertising,  *)
(* the trend and the underperforming group                                 *)
C27_Witness ==
    /\ Ran("describe")
    /\ question_matches[state.question] \cap DescribeGroups
           = {"describe_plan", "describe_ads", "describe_trend", "describe_under"}
    /\ ToolsOf(appended["describe"])
           = <<"plan_fact", "plan_forecast", "ads_summary", "high_drr_campaigns",
               "margin_trend", "underperforming_sku">>

(* the numeric identifiers of a list of SKUs, in list order *)
NumericSkus(skus) == SelectSeq(skus, isdigit)

(* C28: diagnose calls diagnose_sku for the first three numeric            *)
(* identifiers of entities.skus, in list order, wherever the non-numeric   *)
(* ones sit and whatever the numbers are.                                  *)
C28_DiagnosesFirstThreeNumericSkus ==
    Ran("diagnose") =>
        LET numeric == NumericSkus(dict_get(state.entities, "skus", <<>>))
            first   == SubSeq(numeric, 1, IF Len(numeric) < 3 THEN Len(numeric) ELSE 3)
        IN  [k \in 1..Len(sku_calls) |-> sku_calls[k].sku] = first

(* the entries of one tool among those a stage appended *)
EntriesOf(dc, tool) == SelectSeq(dc, LAMBDA e : e.tool = tool)

(* the tool a keyword group of diagnose appends an entry of *)
DiagnoseGroupTool ==
    [ diagnose_causal  |-> "analyze_margin_change",
      diagnose_compare |-> "compare_periods",
      diagnose_anomaly |-> "find_anomalies" ]

(* C29: when diagnose has run, the lookups that raised have left no entry, *)
(* every other lookup has left its entry, in call order, and every keyword *)
(* group the question matches has left its entry too.                      *)
C29_FailedSkuSkipped ==
    Ran("diagnose") =>
        LET succeeded == SelectSeq(sku_calls, LAMBDA c : ~c.raised)
            entries   == EntriesOf(appended["diagnose"], "diagnose_sku")
        IN  /\ entries = [k \in 1..Len(succeeded) |->
                              Entry("diagnose_sku", "diagnose_sku", succeeded[k].sku)]
            /\ \A g \in DiagnoseGroups :
                   matches(state.question, g)
                       => EntriesOf(appended["diagnose"], DiagnoseGroupTool[g]) # <<>>

(* diagnose has returned after a lookup that raised, with the entry of a   *)
(* later SKU and that of a matched keyword group                           *)
C29_Witness ==
    /\ Ran("diagnose")
    /\ pc # "failed"
    /\ Len(sku_calls) = 2
    /\ sku_calls[1].raised
    /\ ~sku_calls[2].raised
    /\ matches(state.question, "diagnose_compare")
    /\ ToolsOf(appended["diagnose"]) = <<"diagnose_sku", "compare_periods">>

(* C30: the general margin-change analysis of diagnose runs exactly when   *)
(* the stage has appended no entry of diagnose_sku and of none of its      *)
(* keyword groups, and analyze_margin_change has at most one entry among   *)
(* those the stage appended.                                               *)
C30_DiagnoseFallbackIffNothingAppended ==
    Ran("diagnose") =>
        LET own         == ToolsOf(appended["diagnose"])
            fallbackRan == /\ ~matches(state.question, "diagnose_causal")
                           /\ Count(own, "analyze_margin_change") > 0
        IN  /\ fallbackRan <=> /\ Count(own, "diagnose_sku") = 0
                                /\ MatchesNone(state.question, DiagnoseGroups)
            /\ Count(own, "analyze_margin_change") <= 1

(* diagnose has run the general analysis after every lookup raised or was  *)
(* skipped, on a question that matches none of its groups                  *)
C30_Witness ==
    /\ Ran("diagnose")
    /\ Len(sku_calls) = 1
    /\ sku_calls[1].raised
    /\ MatchesNone(state.question, DiagnoseGroups)
    /\ ToolsOf(appended["diagnose"]) = <<"analyze_margin_change">>

(* the function each dated tool of describe is called by *)
DatedTools ==
    [ margin_summary     |-> "get_margin_summary",
      top_margin_sku     |-> "get_top_margin_sku",
      bottom_margin_sku  |-> "get_bottom_margin_sku",
      funnel_summary     |-> "get_funnel_summary",
      stock_summary      |-> "get_stock_summary",
      ads_summary        |-> "get_ads_summary",
      high_drr_campaigns |-> "get_high_drr_campaigns" ]

(* every dated entry describe appended was computed for the date `date` *)
DescribedFor(date) ==
    \A i \in 1..Len(appended["describe"]) :
        LET e == appended["describe"][i]
        IN  e.tool \in DOMAIN DatedTools
                => e.result = DatedTools[e.tool] \o "(" \o date \o ")"

(* a string of the shape YYYY-MM-DD *)
IsDateShaped(s) ==
    /\ Len(s) = 10
    /\ \A i \in 1..10 :
          IF i \in {5, 8} THEN SubSeq(s, i, i) = "-"
          ELSE digit_value(SubSeq(s, i, i)) >= 0

C32_FallbackDefaults ==
    (Ran("classify") /\ parsed = "fallback") =>
        /\ state.intent # "clarify"
        /\ MatchesNone(state.question, {"classify_causal", "classify_action"})
               => state.intent = "describe"
        /\ state.entities
               = [skus |-> <<>>, date_range |-> "yesterday", metrics |-> <<>>]

(* classify has fallen back on a question without any marker word *)
C32_Witness ==
    /\ Ran("classify")
    /\ parsed = "fallback"
    /\ MatchesNone(state.question,
                   {"classify_causal", "classify_action", "classify_fact"})
    /\ state.intent = "describe"
    /\ DOMAIN state.entities = {"skus", "date_range", "metrics"}

(* C33: after classify has run the intent is one of describe, diagnose,    *)
(* prescribe and clarify, whatever text the reasoning service returned.    *)
C33_IntentIsEnumerated ==
    Ran("classify") => state.intent \in {"describe", "diagnose", "prescribe", "clarify"}

(* C34: when a handler reaches get_analyst for a user whose stored session *)
(* has been idle for less than the TTL, whichever handler it is, the       *)
(* stored analyst is the one returned, with the history it had, and the    *)
(* time of the access becomes the session's last activity.                 *)
C34_ActiveSessionReusedAndTouched ==
    [][(\A u \in DOMAIN user_sessions :
           (/\ event'.kind \in AccessKinds
            /\ event'.user_id = u
            /\ now - user_sessions[u].last_activity < SESSION_TTL_HOURS)
           => (/\ event'.analyst = user_sessions[u].analyst
               /\ user_sessions'[u] =
                      [analyst |-> user_sessions[u].analyst, last_activity |-> now']
               /\ analysts'[event'.analyst].memory
                      = analysts[event'.analyst].memory))]_vars

(* /history finds, a whole TTL after the session's only exchange, the      *)
(* session still there with that exchange: an access in between has kept   *)
(* it alive                                                                *)
C34_Witness ==
    /\ event.kind = "history"
    /\ ~event.empty
    /\ now = SESSION_TTL_HOURS
    /\ user_sessions[event.user_id] = [analyst |-> event.analyst, last_activity |-> now]
    /\ analysts[event.analyst].memory.history[1].timestamp = 0

(* C35: a round of cleanup_old_sessions removes the sessions idle for      *)
(* longer than the TTL and no other, leaves the others as they are, and    *)
(* removes none that get_analyst would return at that time.                *)
C35_CleanupRemovesExactlyExpired ==
    [][(event'.kind = "cleanup" =>
           /\ DOMAIN user_sessions' \subseteq DOMAIN user_sessions
           /\ \A u \in DOMAIN user_sessions :
                 /\ u \notin DOMAIN user_sessions'
                       <=> now - user_sessions[u].last_activity > SESSION_TTL_HOURS
                 /\ u \in DOMAIN user_sessions'
                       => user_sessions'[u] = user_sessions[u]
                 /\ u \notin DOMAIN user_sessions'
                       => get_analyst(user_sessions, analysts, u, now).analyst
                              # user_sessions[u].analyst)]_vars

(* a round of cleanup has removed one user's session and kept the other's, *)
(* idle for exactly the TTL                                                *)
C35_Witness ==
    /\ event.kind = "cleanup"
    /\ DOMAIN user_sessions = {"u2"}
    /\ now - user_sessions["u2"].last_activity = SESSION_TTL_HOURS
    /\ DOMAIN analysts = {user_sessions["u2"].analyst}
    /\ user_sessions["u2"].analyst = 2

(* C36: an ask whose run raises, in whichever stage, passes the error on   *)
(* and leaves the analyst as it was: the history, the last question, the   *)
(* last response and the last tools are the ones before the call, and no   *)
(* row is stored.                                                          *)
C36_FailedRunLeavesSessionUnchanged ==
    [][((event'.kind = "ask_raised" /\ event'.run_raised) =>
           /\ analysts'[event'.analyst].memory = analysts[event'.analyst].memory
           /\ agent_conversations' = agent_conversations)]_vars

(* an ask has raised in the diagnose stage after an earlier ask was        *)
(* answered; the earlier exchange is still the last one                    *)
C36_Witness ==
    /\ event.kind = "ask_raised"
    /\ event.run_raised
    /\ event.env.diagnose # {}
    /\ Len(analysts[event.analyst].memory.history) = 1
    /\ analysts[event.analyst].memory.last_question = "plan"
    /\ analysts[event.analyst].memory.last_response = "answer"

(* C37: the last question, the last response and the last tools of every   *)
(* analyst are those of the last exchange of its history, and None, None   *)
(* and no tools when the history is empty; a feedback row report_error has *)
(* just stored carries the question, the response and the tools of that    *)
(* last exchange.                                                          *)
C37_LastFieldsMirrorHistory ==
    /\ \A a \in DOMAIN analysts :
          LET memory == analysts[a].memory
              n      == Len(memory.history)
          IN  IF n = 0
              THEN /\ memory.last_question = None
                   /\ memory.last_response = None
                   /\ memory.last_tools_used = <<>>
              ELSE /\ memory.last_question = memory.history[n].question
                   /\ memory.last_response = memory.history[n].response
                   /\ memory.last_tools_used = memory.history[n].tools_used
    /\ (event.kind = "report_error" /\ event.result = FullFeedbackRecorded) =>
          LET history == analysts[event.analyst].memory.history
              exchange == history[Len(history)]
              row == agent_feedback[Len(agent_feedback)]
          IN  /\ history # <<>>
              /\ row.question = exchange.question
              /\ row.response = IF falsy(exchange.response) THEN None
                                 ELSE truncate(exchange.response, FeedbackResponseLimit)
              /\ row.tools_used = IF exchange.tools_used = <<>> THEN None
                                   ELSE json_dumps(exchange.tools_used)

(* report_error has stored a row about the answer to the causal question *)
C37_Witness ==
    /\ event.kind = "report_error"
    /\ event.result = FullFeedbackRecorded
    /\ analysts[1].memory.last_question = "Pocemu marxa"
    /\ analysts[1].memory.last_response = "answer"
    /\ agent_feedback[Len(agent_feedback)].question = "Pocemu marxa"
    /\ agent_feedback[Len(agent_feedback)].tools_used # None

(* the feedback types with a keyword list, in the order of the claim *)
FeedbackOrder ==
    <<"incorrect_data", "wrong_recommendation", "wrong_calculation", "missing_info">>

(* C38: the row report_error stores has the type of the first of the four  *)
(* keyword lists (data, advice, formula, missing) with a word in the       *)
(* comment, and other when no list has one.                                *)
C38_FirstMatchingFeedbackGroup ==
    (event.kind = "report_error" /\ event.result = FullFeedbackRecorded) =>
        LET matching == { k \in 1..Len(FeedbackOrder) :
                            \E i \in 1..Len(FeedbackWords[FeedbackOrder[k]]) :
                                Contains(lower(event.comment),
                                         FeedbackWords[FeedbackOrder[k]][i]) }
            row == agent_feedback[Len(agent_feedback)]
        IN  row.feedback_type =
                IF matching = {} THEN "other"
                ELSE FeedbackOrder[CHOOSE k \in matching :
                                      \A j \in matching : k <= j]

(* a comment with a word of each of the last three lists, the missing word *)
(* first in the text, is stored as a wrong recommendation                  *)
C38_Witness ==
    /\ event.kind = "report_error"
    /\ event.result = FullFeedbackRecorded
    /\ event.comment = "Dobav6 formulu sovet "
    /\ agent_feedback[Len(agent_feedback)].feedback_type = "wrong_recommendation"

RECURSIVE DigestFrom(_, _, _)
DigestFrom(history, k, place) ==
    IF k > Len(history) THEN ""
    ELSE LET response == history[k].response
             shown    == IF Len(response) > 200
                         THEN SubSeq(response, 1, 200) \o "..." ELSE response
         IN  SubSeq("123456789", place, place) \o ". Vopros: "
                 \o history[k].question \o " / Otvet: " \o shown \o " // "
                 \o DigestFrom(history, k + 1, place + 1)

(* C40: the digest get_context builds covers the last five exchanges of    *)
(* the history, or all of them when there are fewer, oldest first, each    *)
(* response cut after its first 200 characters when it is longer; it is    *)
(* the empty text when the history is empty.                               *)
C40_DigestOfLastFive ==
    event.kind = "read_memory" =>
        LET history == analysts[1].memory.history
            n       == Len(history)
        IN  event.context =
                IF n = 0 THEN ""
                ELSE "Predydu5ie voprosy v 8toj sessii: // "
                         \o DigestFrom(history, IF n > 5 THEN n - 4 ELSE 1, 1)

(* the digest of a history of six exchanges whose first response is short  *)
(* and whose last is longer than the cut                                   *)
C40_Witness ==
    /\ event.kind = "read_memory"
    /\ Len(analysts[1].memory.history) = 6
    /\ Len(analysts[1].memory.history[1].response) = 3
    /\ Len(analysts[1].memory.history[2].response) = 200
    /\ Len(analysts[1].memory.history[6].response) = 201
    /\ Len(event.context) > 5 * 200

=============================================================================
